---------------------------- MODULE Spec2Model ----------------------------
(***************************************************************************)
(* A state-machine model of the market-data core of hbext:                 *)
(*   - OrderBookTracker (hummingbot/core/data_type/order_book_tracker.py)  *)
(*   - AsyncRequestContextBase (hummingbot/core/api_throttler/             *)
(*     async_request_context_base.py)                                      *)
(*                                                                         *)
(* Every coroutine is run by one asyncio event loop, so the code between   *)
(* two suspension points is one atomic action.  asyncio.Queue.get suspends *)
(* only on an empty queue, put on an unbounded queue never suspends, and   *)
(* asyncio.Lock.acquire does not suspend when the lock is free.            *)
(*                                                                         *)
(* OrderBook (apply_diffs, restore_from_snapshot_and_diffs, apply_trade)  *)
(* and AsyncRequestContext.within_capacity are not part of the sources at  *)
(* hand; they are modelled from sections 3, 4.A and 4.D of spec.md.  The   *)
(* exchange behind the funding-rate feed is an input of the model.         *)
(***************************************************************************)
EXTENDS Integers, Sequences, FiniteSets, TLC

(***************************************************************************)
(* Bounds of the model.                                                    *)
(***************************************************************************)
\* update ids range over 0..MaxUid
MaxUid == 2
\* messages the data source delivers in one behaviour of Spec
MaxMsgs == 1
\* messages the data source delivers in one behaviour of SpecBook
MaxBookMsgs == 3
\* calls of start() in one behaviour
MaxStarts == 2
\* PAST_DIFF_WINDOW_SIZE is 32 in the source (order_book_tracker.py:35);
\* the ring is modelled with the same drop-oldest rule at a reduced capacity.
PAST_DIFF_WINDOW_SIZE == 2
\* deque(maxlen=1000) in the source (order_book_tracker.py:72), reduced likewise.
SAVED_QUEUE_MAXLEN == 2

\* the throttler's clock runs over 0..MaxTime (one tick = one retry interval)
MaxTime == 4
\* acquire() calls made in one behaviour of SpecThrottler
MaxCalls == 4
\* safety_margin_pct, in percent
SafetyMarginPct == 5
\* the monotonic clock of the last-trade-price loop runs over 0..MaxMono, in seconds
MaxMono == 5
\* a book's last trade is outdated after this many seconds (60 * 3 in the source)
OutdatedTradeAge == 2
\* least age of a book's last REST price update before the next one (5 in the source)
TradeRestRefreshMin == 1
\* the loop's sleep after an exception (30 in the source)
ErrorSleep == 3
\* the loop's sleep when no pair is outdated
LoopSleep == 1
\* REST polls of the funding-rate feed in one behaviour
MaxPolls == 3
MaxTrades == 1
\* messages of all kinds the feed sends in the specification of the loops' handlers
MaxLoopMsgs == 2
\* diffs the feed sends, numbered in the order sent, in the specification of their order
MaxOrderedDiffs == 3
\* FundingRateBase.__init__'s default window
standardization_duration_hours == 24

Pairs == {"A", "B"}
Prices == {1, 2}
Uids == 0 .. MaxUid

VARIABLES
    \* ---- OrderBookTracker fields
    trading_pairs,                 \* self._trading_pairs
    feed_pairs,                    \* pairs the exchange sends messages for
    rest_uids,                     \* update ids a REST snapshot of the exchange may carry
    order_books_initialized,       \* self._order_books_initialized (asyncio.Event)
    tracking_tasks,                \* self._tracking_tasks: pairs with a live worker
    order_books,                   \* self._order_books: dict pair -> OrderBook
    tracking_message_queues,       \* self._tracking_message_queues: dict pair -> Queue
    past_diffs_windows,            \* self._past_diffs_windows: defaultdict pair -> deque
    saved_message_queues,          \* self._saved_message_queues: defaultdict pair -> deque
    order_book_diff_stream,        \* self._order_book_diff_stream
    order_book_snapshot_stream,    \* self._order_book_snapshot_stream
    init_order_books_task,         \* position of the _init_order_books coroutine
    order_book_diff_listener_task,      \* TRUE: task live
    order_book_snapshot_listener_task,  \* TRUE: task live
    order_book_diff_router_task,        \* TRUE: task live
    order_book_snapshot_router_task,    \* TRUE: task live
    aux_tasks,                     \* the handles of the trade-event, trade-listener,
                                   \* stream-listener and last-trade-prices tasks:
                                   \* TRUE when not None
    run,                           \* number of start() calls made
    live_tasks,                    \* the coroutines spawned and not cancelled or ended:
                                   \* records [name, pair, run], run = the start() call
                                   \* that spawned them
    mono_now,                      \* time.perf_counter()
    last_applied_trade,            \* pair -> the book's last_applied_trade
    last_trade_price,              \* pair -> the book's last_trade_price, 0 if none
    last_trade_price_rest_updated, \* pair -> the book's last_trade_price_rest_updated
    update_last_trade_prices_task, \* the loop: [pc, args, until]
    prices_last,                   \* the loop's REST calls (history): [op, args, at] of the
                                   \* latest call that ended, began: pair -> the time
                                   \* at which the latest call that named the pair began
    order_book_trade_stream,       \* self._order_book_trade_stream: queue of trade messages
    trade_last,                    \* what the last step of the trade loop did (history)
    executor,                      \* the PositionExecutor: its fields, the position of its
                                   \* control_task, and what its last handler did
    loop_errors,                   \* loop (a router, the trade loop, or a pair for the pair's
                                   \* worker) -> "sleeping" in the sleep of its exception
                                   \* handler, "resumed" after such a sleep, "-" before any
    funding_rates,                 \* FundingRateBase._funding_rates: pair -> rate
    funding_interval_hours,        \* BinancePerpetualFundingRates._funding_interval_hours
    fetch_fundingrate_task,        \* where fetch_fundingrates_loop is: "none" (no task),
                                   \* "info", "rates", "sleep"
    polls_left,                    \* REST polls the loop may still begin
    frame_raw,                     \* pair -> lastFundingRate of the pair's symbol in the
                                   \* latest frame that contained it, 0 if none
    last_update_time,              \* self._last_update_time: the poll, counted from 1, in
                                   \* which it was assigned, 0 for None
    fetch_loops,                   \* the fetch_fundingrates_loop tasks that were spawned
                                   \* and not cancelled, each named by its spawn time
    fetch_fundingrate_task_id,     \* the task self._fetch_fundingrate_task refers to,
                                   \* 0 for None
    listen_fundingrate_task,       \* self._listen_fundingrate_task, 0 for None
    listen_for_subscriptions_task, \* a call of listen_for_subscriptions: where it is
                                   \* ("none", "connect", "listen", "sleep", "disconnect",
                                   \* "ended"), its local ws (FALSE for None), and in
                                   \* "disconnect" whether the loop goes on afterwards
    funding_last,                  \* what the last step of the feed did (history)
    born,                          \* pair -> the run in which _init_order_books made the
                                   \* pair's book and inbox, 0 if it has none
    \* ---- history (not program state)
    msgs_left,                     \* messages the data source may still deliver
    starts_left,                   \* start() calls still to come
    nready,                        \* times the event was set since the last start()
    last,                          \* what the last handler step did
    applied_uid,                   \* pair -> id of the last diff the worker applied to the
                                   \* pair's current book, -1 if none
    snapshot_floor,                \* pair -> largest id of a snapshot the worker applied to
                                   \* the pair's current book, -1 if none
    snapshot_last,                 \* pair -> id of the latest snapshot the worker applied to
                                   \* the pair's current book, -1 if none
    window_stale,                  \* pair -> for each entry of the pair's past-diffs window,
                                   \* whether the book dropped that diff as stale when the
                                   \* worker processed it
    \* ---- the throttler: the state the AsyncRequestContext objects share
    task_logs,                     \* self._task_logs: list of TaskLog
    time_now,                      \* time.time(), in ticks
    acquire_pc,                    \* caller -> position in acquire()
    acquire_limit,                 \* caller -> limit id of the caller's context
    \* ---- history (not program state)
    calls_left,                    \* acquire() calls still to come
    completed                      \* limit id -> timestamp -> weight logged by the acquires
                                   \* that completed at that time

env_vars == <<trading_pairs, feed_pairs, rest_uids>>
book_vars == <<order_books, past_diffs_windows>>
queue_vars == <<tracking_message_queues, saved_message_queues>>
stream_vars == <<order_book_diff_stream, order_book_snapshot_stream>>
task_vars == <<order_book_diff_listener_task, order_book_snapshot_listener_task,
               order_book_diff_router_task, order_book_snapshot_router_task>>
run_vars == <<aux_tasks, run, live_tasks, born>>
budget_vars == <<msgs_left, starts_left>>
ghost_vars == <<applied_uid, snapshot_floor, snapshot_last, window_stale>>
tracker_vars == <<env_vars, book_vars, queue_vars, stream_vars, task_vars, run_vars, budget_vars,
                  ghost_vars, order_books_initialized, tracking_tasks,
                  init_order_books_task, nready, last>>
throttler_vars == <<task_logs, time_now, acquire_pc, acquire_limit, calls_left, completed>>
trade_vars == <<mono_now, last_applied_trade, last_trade_price, last_trade_price_rest_updated,
                update_last_trade_prices_task, prices_last, order_book_trade_stream,
                trade_last>>
funding_task_vars == <<fetch_loops, fetch_fundingrate_task_id, listen_fundingrate_task,
                       listen_for_subscriptions_task>>
funding_vars == <<funding_rates, funding_interval_hours, fetch_fundingrate_task, polls_left,
                  frame_raw, last_update_time, funding_task_vars, funding_last>>
\* the state of the components other than the tracker's books and queues
other_vars == <<throttler_vars, trade_vars, funding_vars, loop_errors, executor>>
\* the state of the components other than the throttler
non_throttler_vars == <<tracker_vars, trade_vars, funding_vars, loop_errors, executor>>
vars == <<tracker_vars, other_vars>>

(***************************************************************************)
(* Sequences and dicts.                                                    *)
(***************************************************************************)
Max(S) == CHOOSE x \in S : \A y \in S : y <= x

Range(s) == {s[i] : i \in 1 .. Len(s)}

\* d[k] = v on a dict (a function whose domain is its key set)
DictSet(d, k, v) == [x \in (DOMAIN d) \cup {k} |-> IF x = k THEN v ELSE d[x]]

\* deque(maxlen=n).appendleft(x): the entry is put in front, the last one dropped when full
DequeAppendLeft(q, x, n) ==
    IF Len(q) >= n THEN <<x>> \o SubSeq(q, 1, Len(q) - 1) ELSE <<x>> \o q

\* deque(maxlen=n).append(x): the oldest entry is dropped when full
DequeAppend(q, x, n) == IF Len(q) >= n THEN Append(Tail(q), x) ELSE Append(q, x)

(***************************************************************************)
(* OrderBookMessage.  The bid and ask ladders are folded into one ladder   *)
(* price -> size; a diff carries absolute sizes for some prices (size 0    *)
(* removes the level), a snapshot carries the whole ladder.  The content   *)
(* of a message is a function of its kind and update id.                   *)
(***************************************************************************)
DiffLevels(u) == [pr \in {1 + (u % 2)} |-> (u % 3)]

SnapshotLevels(u) == [pr \in Prices |-> 5 + u]

DiffMessage(p, u) ==
    [type |-> "DIFF", trading_pair |-> p, update_id |-> u, levels |-> DiffLevels(u)]

SnapshotMessage(p, u) ==
    [type |-> "SNAPSHOT", trading_pair |-> p, update_id |-> u, levels |-> SnapshotLevels(u)]

(***************************************************************************)
(* OrderBook, from spec.md 3 and 4.D.                                      *)
(***************************************************************************)
\* apply_diffs(bids, asks, update_id): requires update_id > last_diff_uid, upserts
\* each level and records the id; a diff with update_id <= last_diff_uid is
\* dropped silently
apply_diffs(book, levels, update_id) ==
    IF update_id > book.last_diff_uid
    THEN [book EXCEPT
            !.levels = [pr \in Prices |->
                          IF pr \in DOMAIN levels THEN levels[pr] ELSE book.levels[pr]],
            !.last_diff_uid = update_id]
    ELSE book

\* the state a snapshot leaves: both ladders replaced (a price the message does not
\* carry has no level, size 0), snapshot_uid = last_diff_uid = id
apply_snapshot(levels, update_id) ==
    [snapshot_uid |-> update_id, last_diff_uid |-> update_id,
     levels |-> [pr \in Prices |-> IF pr \in DOMAIN levels THEN levels[pr] ELSE 0]]

\* the diffs of a list in ascending update id (stable insertion sort)
RECURSIVE SortedByUid(_)
SortedByUid(diffs) ==
    IF diffs = <<>> THEN <<>>
    ELSE LET rest == SortedByUid(Tail(diffs))
             d == Head(diffs)
             lower == SelectSeq(rest, LAMBDA m : m.update_id < d.update_id)
             upper == SelectSeq(rest, LAMBDA m : m.update_id >= d.update_id)
         IN lower \o <<d>> \o upper

RECURSIVE ApplyAll(_, _)
ApplyAll(book, diffs) ==
    IF diffs = <<>> THEN book
    ELSE ApplyAll(apply_diffs(book, Head(diffs).levels, Head(diffs).update_id), Tail(diffs))

\* restore_from_snapshot_and_diffs(snapshot_msg, past_diffs)
restore_from_snapshot_and_diffs(book, snapshot, diffs) ==
    ApplyAll(apply_snapshot(snapshot.levels, snapshot.update_id),
             SortedByUid(SelectSeq(diffs, LAMBDA m : m.update_id > snapshot.update_id)))

\* the book get_new_order_book returns: built from a REST snapshot with id u
NewOrderBook(u) == apply_snapshot(SnapshotLevels(u), u)

NoMessage == [type |-> "NONE", trading_pair |-> "-", update_id |-> -1, levels |-> <<>>]

\* the record kept in `last`: the handler step just taken.  For a step of the
\* worker: changed = the book is not what it was, stale = the message is a diff with
\* update_id <= last_diff_uid, gap = the message is a snapshot older than the oldest
\* diff of the past-diffs window.
WorkerStep(op, p, msg, how, changed, stale, gap) ==
    [op |-> op, pair |-> p, msg |-> msg, how |-> how,
     changed |-> changed, stale |-> stale, gap |-> gap,
     prev_applied |-> IF p \in Pairs THEN applied_uid[p] ELSE -1,
     prev_floor |-> IF p \in Pairs THEN snapshot_floor[p] ELSE -1,
     prev_snapshot |-> IF p \in Pairs THEN snapshot_last[p] ELSE -1]

Step(op, p, msg, how) == WorkerStep(op, p, msg, how, FALSE, FALSE, FALSE)

NoStep ==
    [op |-> "none", pair |-> "-", msg |-> NoMessage, how |-> "-",
     changed |-> FALSE, stale |-> FALSE, gap |-> FALSE,
     prev_applied |-> -1, prev_floor |-> -1, prev_snapshot |-> -1]

(***************************************************************************)
(* PositionExecutor (strategy_v2/executors/position_executor).             *)
(*                                                                         *)
(* The executor is one record.  A tracked order is "None" (no TrackedOrder *)
(* in the slot), "pending" (a TrackedOrder whose in-flight order is not    *)
(* attached yet), "open", "filled", or "canceled" (the in-flight order is  *)
(* done without a fill and its event has not been delivered yet).  Amounts *)
(* are whole orders: an order is filled in full or not at all.             *)
(***************************************************************************)
max_retries == 2
MaxPnl == 2

\* the net PnL percentages a tick may observe
PnLs == -MaxPnl .. MaxPnl

OrderSlots == {"open_order", "close_order", "take_profit_limit_order"}

trading_rules == [min_order_size |-> 1]

\* PositionExecutorConfig: the order amount and the triple barrier; a stop_loss or
\* take_profit of 0 is the absent (falsy) barrier, trailing_stop is <<>> when absent.
\* The configurations tried: every mix of stop loss, take profit and time limit, and
\* each trailing stop alone or with a time limit
Configs ==
    {config \in [amount : {1},
                 stop_loss : {0, 1},
                 take_profit : {0, 2},
                 take_profit_order_type : {"LIMIT", "MARKET"},
                 trailing_stop : {<<>>,
                                  <<[activation_price |-> 0, trailing_delta |-> 2]>>,
                                  <<[activation_price |-> 1, trailing_delta |-> 1]>>},
                 time_limit : BOOLEAN] :
        /\ config.take_profit = 0 => config.take_profit_order_type = "MARKET"
        /\ config.trailing_stop # <<>> => config.stop_loss = 0 /\ config.take_profit = 0}

\* the executor as __init__ leaves it: no tracked order, no trigger, no retry.  The
\* fields op and requests are history: the handler that ran last and the requests
\* it sent to the strategy ("open", "close", "take_profit", "cancel_open",
\* "cancel_take_profit"), in order; pc is where control_task is ("sleep": in the
\* sleep that ends control_shutdown_process); is_expired is the strategy's clock
\* having passed end_time
PositionExecutor(config, status) ==
    [config |-> config, status |-> status, close_type |-> "None",
     open_order |-> "None", close_order |-> "None", take_profit_limit_order |-> "None",
     trailing_stop_trigger_pct |-> <<>>, current_retries |-> 0,
     is_expired |-> FALSE, pc |-> "idle", op |-> "-", requests |-> <<>>]

\* no executor has been started
ExecutorIdle ==
    executor = PositionExecutor([amount |-> 1, stop_loss |-> 0, take_profit |-> 0,
                                 take_profit_order_type |-> "MARKET",
                                 trailing_stop |-> <<>>, time_limit |-> FALSE],
                                "NOT_STARTED")

\* a handler begins: its history is empty
Begin(e, op) == [e EXCEPT !.op = op, !.requests = <<>>]

\* the control loop and the event listeners of the executor are live
Active(e) == e.status \in {"RUNNING", "SHUTTING_DOWN"}

is_done(order) == order \in {"filled", "canceled"}
is_filled(order) == order = "filled"
is_open(order) == order = "open"

\* self.stop_executor(): the control loop ends and the listeners are unregistered
stop_executor(e) == [e EXCEPT !.status = "TERMINATED"]

open_filled_amount(e) == IF is_filled(e.open_order) THEN e.config.amount ELSE 0

amount_to_close(e) ==
    open_filled_amount(e) - (IF is_filled(e.close_order) THEN e.config.amount ELSE 0)

cancel_open_orders(e) ==
    LET open == IF is_open(e.open_order) THEN <<"cancel_open">> ELSE <<>>
        take == IF is_open(e.take_profit_limit_order) THEN <<"cancel_take_profit">>
                ELSE <<>>
    IN [e EXCEPT !.requests = @ \o open \o take]

place_close_order_and_cancel_open_orders(e, close_type) ==
    LET c == cancel_open_orders(e)
        placing == /\ amount_to_close(c) >= trading_rules.min_order_size
                   /\ close_type # "POSITION_HOLD"
    IN [c EXCEPT !.close_order = IF placing THEN "pending" ELSE @,
                 !.requests = IF placing THEN Append(@, "close") ELSE @,
                 !.close_type = close_type,
                 !.status = "SHUTTING_DOWN"]

control_stop_loss(e, net_pnl_pct) ==
    IF e.config.stop_loss # 0 /\ net_pnl_pct <= -e.config.stop_loss
    THEN place_close_order_and_cancel_open_orders(e, "STOP_LOSS")
    ELSE e

\* `not self._trailing_stop_trigger_pct` holds of None and of a trigger of zero
control_trailing_stop(e, net_pnl_pct) ==
    IF e.config.trailing_stop = <<>> THEN e
    ELSE LET trailing_stop == e.config.trailing_stop[1]
             trigger == e.trailing_stop_trigger_pct
             moved == net_pnl_pct - trailing_stop.trailing_delta
         IN IF trigger = <<>> \/ trigger[1] = 0
            THEN IF net_pnl_pct > trailing_stop.activation_price
                 THEN [e EXCEPT !.trailing_stop_trigger_pct = <<moved>>]
                 ELSE e
            ELSE LET closed == IF net_pnl_pct < trigger[1]
                               THEN place_close_order_and_cancel_open_orders(
                                        e, "TRAILING_STOP")
                               ELSE e
                 IN IF moved > trigger[1]
                    THEN [closed EXCEPT !.trailing_stop_trigger_pct = <<moved>>]
                    ELSE closed

\* within: the take-profit price is within the activation bounds
control_take_profit(e, net_pnl_pct, within) ==
    IF e.config.take_profit = 0 THEN e
    ELSE IF e.config.take_profit_order_type = "LIMIT"
    THEN IF e.take_profit_limit_order = "None"
         THEN IF within
              THEN [e EXCEPT !.take_profit_limit_order = "pending",
                             !.requests = Append(@, "take_profit")]
              ELSE e
         ELSE IF is_open(e.take_profit_limit_order) /\ ~within
              THEN [e EXCEPT !.requests = Append(@, "cancel_take_profit")]
              ELSE e
    ELSE IF net_pnl_pct >= e.config.take_profit
         THEN place_close_order_and_cancel_open_orders(e, "TAKE_PROFIT")
         ELSE e

control_time_limit(e) ==
    IF e.is_expired THEN place_close_order_and_cancel_open_orders(e, "TIME_LIMIT")
    ELSE e

control_barriers(e, net_pnl_pct, within) ==
    LET priced == IF /\ is_filled(e.open_order)
                     /\ open_filled_amount(e) >= trading_rules.min_order_size
                  THEN control_take_profit(
                           control_trailing_stop(control_stop_loss(e, net_pnl_pct),
                                                 net_pnl_pct),
                           net_pnl_pct, within)
                  ELSE e
    IN control_time_limit(priced)

\* within: the entry price is within the activation bounds
control_open_order(e, within) ==
    IF e.open_order = "None"
    THEN IF within
         THEN [e EXCEPT !.open_order = "pending", !.requests = Append(@, "open")]
         ELSE e
    ELSE IF e.open_order # "pending" /\ ~is_filled(e.open_order) /\ ~within
         THEN [e EXCEPT !.requests = Append(@, "cancel_open")]
         ELSE e

\* the take-profit order is left out of the test
all_orders_completed_but_take_profit(e) ==
    /\ e.open_order = "None" \/ is_done(e.open_order)
    /\ e.close_order = "None" \/ is_done(e.close_order)

all_orders_completed(e) ==
    /\ e.open_order = "None" \/ is_done(e.open_order)
    /\ e.take_profit_limit_order = "None" \/ is_done(e.take_profit_limit_order)
    /\ e.close_order = "None" \/ is_done(e.close_order)

open_and_close_volume_match(e) ==
    IF open_filled_amount(e) = 0 THEN TRUE
    ELSE e.close_order # "None" /\ is_filled(e.close_order)

\* found: the connector still has the in-flight order of a close order whose
\* TrackedOrder has none attached
control_close_order(e, found) ==
    IF e.close_order # "None"
    THEN IF e.close_order # "pending" \/ found
         THEN [e EXCEPT !.close_order = IF @ = "pending" THEN "open" ELSE @]
         ELSE [e EXCEPT !.close_order = "None"]
    ELSE place_close_order_and_cancel_open_orders(e, e.close_type)

\* up to its closing sleep
control_shutdown_process(e, found) ==
    IF all_orders_completed(e)
    THEN IF e.close_type = "POSITION_HOLD"
         THEN LET held == is_filled(e.open_order) \/ is_filled(e.close_order)
              IN stop_executor([e EXCEPT !.close_type = IF held THEN @ ELSE "EARLY_STOP"])
         ELSE IF open_and_close_volume_match(e)
         THEN stop_executor(e)
         ELSE [control_close_order(e, found) EXCEPT !.current_retries = @ + 1]
    ELSE cancel_open_orders(e)

evaluate_max_retries(e) ==
    IF e.current_retries > max_retries
    THEN stop_executor([e EXCEPT !.close_type = "FAILED"])
    ELSE e

\* the open order is controlled whatever the status is
control_task_opens_in_any_status(e, net_pnl_pct, within_open, within_take, found) ==
    LET o == control_open_order(e, within_open)
    IN IF e.status = "RUNNING"
       THEN evaluate_max_retries(control_barriers(o, net_pnl_pct, within_take))
       ELSE [control_shutdown_process(o, found) EXCEPT !.pc = "sleep"]

\* control_task up to its first await that yields: the whole of it while RUNNING,
\* up to the sleep of control_shutdown_process while SHUTTING_DOWN
control_task_body(e, net_pnl_pct, within_open, within_take, found) ==
    IF e.status = "RUNNING"
    THEN evaluate_max_retries(
             control_barriers(control_open_order(e, within_open),
                              net_pnl_pct, within_take))
    ELSE [control_shutdown_process(e, found) EXCEPT !.pc = "sleep"]

\* the variables of the other components
non_executor_vars == <<tracker_vars, throttler_vars, trade_vars, funding_vars, loop_errors>>

\* one tick of the control loop
control_task ==
    /\ Active(executor)
    /\ executor.pc = "idle"
    /\ \E net_pnl_pct \in PnLs, within_open \in BOOLEAN, within_take \in BOOLEAN,
          found \in BOOLEAN :
          executor' = control_task_body(Begin(executor, "control_task"),
                          net_pnl_pct,
                          within_open, within_take, found)
    /\ UNCHANGED non_executor_vars

\* the sleep of control_shutdown_process ends and control_task goes on
control_task_after_sleep ==
    /\ executor.pc = "sleep"
    /\ executor' = [evaluate_max_retries(Begin(executor, "control_task_after_sleep"))
                       EXCEPT !.pc = "idle"]
    /\ UNCHANGED non_executor_vars

early_stop(keep_position) ==
    /\ Active(executor)
    /\ executor' = [Begin(executor, "early_stop") EXCEPT
                       !.close_type = IF keep_position THEN "POSITION_HOLD"
                                      ELSE "EARLY_STOP",
                       !.status = "SHUTTING_DOWN"]
    /\ UNCHANGED non_executor_vars

\* update_tracked_orders_with_order_id attaches the in-flight order
process_order_created_event(slot) ==
    /\ Active(executor)
    /\ executor[slot] = "pending"
    /\ executor' = [Begin(executor, "process_order_created_event") EXCEPT
                       ![slot] = "open"]
    /\ UNCHANGED non_executor_vars

process_order_completed_event(slot) ==
    /\ Active(executor)
    /\ executor[slot] \in {"pending", "open"}
    /\ LET e == [Begin(executor, "process_order_completed_event") EXCEPT
                    ![slot] = "filled"]
       IN executor' = IF slot = "take_profit_limit_order"
                      THEN [e EXCEPT !.close_type = "TAKE_PROFIT",
                                     !.close_order = e.take_profit_limit_order,
                                     !.status = "SHUTTING_DOWN"]
                      ELSE e
    /\ UNCHANGED non_executor_vars

process_order_canceled_event(slot) ==
    /\ Active(executor)
    /\ executor[slot] \in {"open", "canceled"}
    /\ executor' = [Begin(executor, "process_order_canceled_event") EXCEPT
                       ![slot] = "None"]
    /\ UNCHANGED non_executor_vars

process_order_failed_event(slot) ==
    /\ Active(executor)
    /\ executor[slot] \in {"pending", "open"}
    /\ executor.current_retries <= max_retries + 1
    /\ executor' = [Begin(executor, "process_order_failed_event") EXCEPT
                       ![slot] = "None",
                       !.current_retries = IF slot = "take_profit_limit_order" THEN @
                                           ELSE @ + 1]
    /\ UNCHANGED non_executor_vars

\* the connector marks the in-flight order of a slot cancelled; the event follows
in_flight_order_canceled(slot) ==
    /\ Active(executor)
    /\ executor[slot] = "open"
    /\ executor' = [Begin(executor, "in_flight_order_canceled") EXCEPT
                       ![slot] = "canceled"]
    /\ UNCHANGED non_executor_vars

\* the strategy's clock passes end_time
time_limit_passes ==
    /\ Active(executor)
    /\ executor.config.time_limit
    /\ ~executor.is_expired
    /\ executor' = [Begin(executor, "time_limit_passes") EXCEPT !.is_expired = TRUE]
    /\ UNCHANGED non_executor_vars

\* the loops with a handler `except Exception: log, sleep`: the two routers, the
\* trade loop, and the worker of each pair (named by the pair)
Loops == {"order_book_diff_router", "order_book_snapshot_router", "emit_trade_event"}
             \cup Pairs

\* the loop is not in the sleep of its exception handler
Awake(loop) == loop_errors[loop] # "sleeping"

(***************************************************************************)
(* Initial state: the tracker as __init__ leaves it.                       *)
(***************************************************************************)
TrackerInit ==
    /\ order_books_initialized = FALSE
    /\ tracking_tasks = {}
    /\ order_books = <<>>
    /\ tracking_message_queues = <<>>
    /\ past_diffs_windows = [p \in Pairs |-> <<>>]
    /\ saved_message_queues = [p \in Pairs |-> <<>>]
    /\ order_book_diff_stream = <<>>
    /\ order_book_snapshot_stream = <<>>
    /\ init_order_books_task = [pc |-> "none", index |-> 0]
    /\ order_book_diff_listener_task = FALSE
    /\ order_book_snapshot_listener_task = FALSE
    /\ order_book_diff_router_task = FALSE
    /\ order_book_snapshot_router_task = FALSE
    /\ aux_tasks = [emit_trade_event_task |-> FALSE,
                    order_book_trade_listener_task |-> FALSE,
                    order_book_stream_listener_task |-> FALSE,
                    update_last_trade_prices_task |-> FALSE]
    /\ run = 0
    /\ live_tasks = {}
    /\ born = [p \in Pairs |-> 0]
    /\ nready = 0
    /\ last = NoStep
    /\ loop_errors = [l \in Loops |-> "-"]
    /\ applied_uid = [p \in Pairs |-> -1]
    /\ snapshot_floor = [p \in Pairs |-> -1]
    /\ snapshot_last = [p \in Pairs |-> -1]
    /\ window_stale = [p \in Pairs |-> <<>>]

(***************************************************************************)
(* stop() and start().                                                     *)
(***************************************************************************)
\* stop(): every task handle is cancelled and forgotten, the workers are cancelled,
\* _tracking_tasks is cleared and the event is cleared.  Books, inboxes, saved
\* queues, past-diffs windows and the three streams are left as they are.
Task(name, p, r) == [name |-> name, pair |-> p, run |-> r]

\* the tasks start() spawns
Spawned(r) ==
    {Task(name, "-", r) : name \in {"init_order_books", "emit_trade_event",
                                     "order_book_diff_listener",
                                     "order_book_trade_listener",
                                     "order_book_snapshot_listener",
                                     "order_book_stream_listener",
                                     "order_book_diff_router",
                                     "order_book_snapshot_router",
                                     "update_last_trade_prices"}}

\* stop() leaving the event set
StopTasksKeepsReady ==
    /\ tracking_tasks' = {}
    /\ loop_errors' = [l \in Loops |-> "-"]
    /\ UNCHANGED executor
    /\ UNCHANGED <<throttler_vars, trade_vars, funding_vars, env_vars, book_vars,
                   queue_vars, stream_vars, order_books_initialized>>

\* stop(): the dict of workers and the event; a cancelled task that was in the
\* sleep of its exception handler sleeps no more
StopTasks ==
    /\ tracking_tasks' = {}
    /\ order_books_initialized' = FALSE
    /\ loop_errors' = [l \in Loops |-> "-"]
    /\ UNCHANGED executor
    /\ UNCHANGED <<throttler_vars, trade_vars, funding_vars, env_vars, book_vars,
                   queue_vars, stream_vars>>

\* stop() cancelling the tasks of the handles and leaving the workers running
CancelledHandlesOnly ==
    {t \in live_tasks :
        /\ t.run = run
        /\ \/ t.name = "init_order_books" /\ init_order_books_task.pc # "none"
           \/ t.name = "order_book_diff_listener" /\ order_book_diff_listener_task
           \/ t.name = "order_book_snapshot_listener" /\ order_book_snapshot_listener_task
           \/ t.name = "order_book_diff_router" /\ order_book_diff_router_task
           \/ t.name = "order_book_snapshot_router" /\ order_book_snapshot_router_task
           \/ t.name = "emit_trade_event" /\ aux_tasks.emit_trade_event_task
           \/ t.name = "order_book_trade_listener" /\ aux_tasks.order_book_trade_listener_task
           \/ t.name = "order_book_stream_listener" /\ aux_tasks.order_book_stream_listener_task
           \/ t.name = "update_last_trade_prices" /\ aux_tasks.update_last_trade_prices_task}

\* the tasks stop() cancels: those the task handles and _tracking_tasks refer to
Cancelled ==
    {t \in live_tasks :
        /\ t.run = run
        /\ \/ t.name = "init_order_books" /\ init_order_books_task.pc # "none"
           \/ t.name = "order_book_diff_listener" /\ order_book_diff_listener_task
           \/ t.name = "order_book_snapshot_listener" /\ order_book_snapshot_listener_task
           \/ t.name = "order_book_diff_router" /\ order_book_diff_router_task
           \/ t.name = "order_book_snapshot_router" /\ order_book_snapshot_router_task
           \/ t.name = "emit_trade_event" /\ aux_tasks.emit_trade_event_task
           \/ t.name = "order_book_trade_listener" /\ aux_tasks.order_book_trade_listener_task
           \/ t.name = "order_book_stream_listener" /\ aux_tasks.order_book_stream_listener_task
           \/ t.name = "update_last_trade_prices" /\ aux_tasks.update_last_trade_prices_task
           \/ t.name = "track_single_book" /\ t.pair \in tracking_tasks}

stop ==
    /\ StopTasks
    /\ init_order_books_task' = [pc |-> "none", index |-> 0]
    /\ order_book_diff_listener_task' = FALSE
    /\ order_book_snapshot_listener_task' = FALSE
    /\ order_book_diff_router_task' = FALSE
    /\ order_book_snapshot_router_task' = FALSE
    /\ aux_tasks' = [emit_trade_event_task |-> FALSE,
                     order_book_trade_listener_task |-> FALSE,
                     order_book_stream_listener_task |->
                         aux_tasks.order_book_stream_listener_task,
                     update_last_trade_prices_task |-> FALSE]
    /\ live_tasks' = live_tasks \ Cancelled
    /\ last' = Step("stop", "-", NoMessage, "-")
    /\ UNCHANGED <<budget_vars, ghost_vars, nready, run, born>>

\* start(): stop(), then the tasks are spawned
start ==
    /\ starts_left > 0
    /\ StopTasks
    /\ init_order_books_task' = [pc |-> "get", index |-> 1]
    /\ order_book_diff_listener_task' = TRUE
    /\ order_book_snapshot_listener_task' = TRUE
    /\ order_book_diff_router_task' = TRUE
    /\ order_book_snapshot_router_task' = TRUE
    /\ starts_left' = starts_left - 1
    /\ nready' = 0
    /\ aux_tasks' = [emit_trade_event_task |-> TRUE,
                     order_book_trade_listener_task |-> TRUE,
                     order_book_stream_listener_task |-> TRUE,
                     update_last_trade_prices_task |-> TRUE]
    /\ run' = run + 1
    /\ live_tasks' = (live_tasks \ Cancelled) \cup Spawned(run + 1)
    /\ last' = Step("start", "-", NoMessage, "-")
    /\ UNCHANGED <<msgs_left, ghost_vars, born>>

(***************************************************************************)
(* _init_order_books: for each pair, await get_new_order_book, then create *)
(* the inbox and the worker, then sleep; after the last pair set the event.*)
(***************************************************************************)
\* get_new_order_book(pair) returns a book built from a snapshot with id u
InitOrderBook(u) ==
    /\ init_order_books_task.pc = "get"
    /\ u \in rest_uids
    /\ LET p == trading_pairs[init_order_books_task.index] IN
        /\ order_books' = DictSet(order_books, p, NewOrderBook(u))
        /\ tracking_message_queues' = DictSet(tracking_message_queues, p, <<>>)
        /\ tracking_tasks' = tracking_tasks \cup {p}
        /\ live_tasks' = live_tasks \cup {Task("track_single_book", p, run)}
        /\ born' = [born EXCEPT ![p] = run]
        /\ applied_uid' = [applied_uid EXCEPT ![p] = -1]
        /\ snapshot_floor' = [snapshot_floor EXCEPT ![p] = -1]
        /\ snapshot_last' = [snapshot_last EXCEPT ![p] = -1]
        /\ UNCHANGED window_stale
        /\ last' = Step("init_pair", p, NoMessage, "-")
    /\ init_order_books_task' = [init_order_books_task EXCEPT !.pc = "sleep"]
    /\ UNCHANGED <<other_vars, env_vars, stream_vars, task_vars, budget_vars, order_books_initialized,
                   past_diffs_windows, saved_message_queues, nready, run, aux_tasks>>

\* get_new_order_book raises and _init_order_books goes on with the next pair
InitOrderBookFailsAndGoesOn ==
    /\ init_order_books_task.pc = "get"
    /\ init_order_books_task' = [init_order_books_task EXCEPT !.pc = "sleep"]
    /\ last' = Step("init_failed", trading_pairs[init_order_books_task.index], NoMessage, "-")
    /\ UNCHANGED <<other_vars, env_vars, book_vars, queue_vars, stream_vars, task_vars, budget_vars,
                   ghost_vars, order_books_initialized, tracking_tasks, nready, run, born, aux_tasks,
                   live_tasks>>

\* get_new_order_book raises: the exception ends the _init_order_books task
InitOrderBookFails ==
    /\ init_order_books_task.pc = "get"
    /\ init_order_books_task' = [init_order_books_task EXCEPT !.pc = "failed"]
    /\ live_tasks' = live_tasks \ {Task("init_order_books", "-", run)}
    /\ last' = Step("init_failed", trading_pairs[init_order_books_task.index], NoMessage, "-")
    /\ UNCHANGED <<other_vars, env_vars, book_vars, queue_vars, stream_vars, task_vars, budget_vars,
                   ghost_vars, order_books_initialized, tracking_tasks, nready, run, born, aux_tasks>>

\* InitAfterSleep with the event set inside the loop, after every pair
InitAfterSleepEarly ==
    /\ init_order_books_task.pc = "sleep"
    /\ init_order_books_task' =
          IF init_order_books_task.index < Len(trading_pairs)
          THEN [pc |-> "get", index |-> init_order_books_task.index + 1]
          ELSE [init_order_books_task EXCEPT !.pc = "done"]
    /\ order_books_initialized' = TRUE
    /\ nready' = IF order_books_initialized THEN nready ELSE nready + 1
    /\ live_tasks' = IF init_order_books_task.index < Len(trading_pairs)
                     THEN live_tasks
                     ELSE live_tasks \ {Task("init_order_books", "-", run)}
    /\ last' = Step("init_done", "-", NoMessage, "-")
    /\ UNCHANGED <<other_vars, env_vars, book_vars, queue_vars, stream_vars, task_vars, budget_vars,
                   ghost_vars, tracking_tasks, run, born, aux_tasks>>

\* the sleep after a pair ends: the next pair, or the event is set
InitAfterSleep ==
    /\ init_order_books_task.pc = "sleep"
    /\ IF init_order_books_task.index < Len(trading_pairs)
       THEN /\ init_order_books_task' =
                   [pc |-> "get", index |-> init_order_books_task.index + 1]
            /\ last' = Step("init_next", "-", NoMessage, "-")
            /\ UNCHANGED <<order_books_initialized, nready, live_tasks>>
       ELSE /\ init_order_books_task' = [init_order_books_task EXCEPT !.pc = "done"]
            /\ order_books_initialized' = TRUE
            /\ nready' = nready + 1
            /\ live_tasks' = live_tasks \ {Task("init_order_books", "-", run)}
            /\ last' = Step("init_done", "-", NoMessage, "-")
    /\ UNCHANGED <<other_vars, env_vars, book_vars, queue_vars, stream_vars, task_vars, budget_vars,
                   ghost_vars, tracking_tasks, run, born, aux_tasks>>

(***************************************************************************)
(* The data source's listeners put parsed messages on the global streams.  *)
(***************************************************************************)
DiffArrives(p, u) ==
    /\ order_book_diff_listener_task
    /\ msgs_left > 0
    /\ p \in feed_pairs
    /\ order_book_diff_stream' = Append(order_book_diff_stream, DiffMessage(p, u))
    /\ msgs_left' = msgs_left - 1
    /\ last' = Step("diff_arrives", p, DiffMessage(p, u), "-")
    /\ UNCHANGED <<other_vars, env_vars, book_vars, queue_vars, task_vars, run_vars, ghost_vars, starts_left,
                   order_book_snapshot_stream, order_books_initialized, tracking_tasks,
                   init_order_books_task, nready>>

\* the diff listener puts the next diff of the feed on the stream: the exchange
\* numbers its diffs in the order it sends them
DiffArrivesInOrder(p) == DiffArrives(p, MaxOrderedDiffs - msgs_left)

SnapshotArrives(p, u) ==
    /\ order_book_snapshot_listener_task
    /\ msgs_left > 0
    /\ p \in feed_pairs
    /\ order_book_snapshot_stream' = Append(order_book_snapshot_stream, SnapshotMessage(p, u))
    /\ msgs_left' = msgs_left - 1
    /\ last' = Step("snapshot_arrives", p, SnapshotMessage(p, u), "-")
    /\ UNCHANGED <<other_vars, env_vars, book_vars, queue_vars, task_vars, run_vars, ghost_vars, starts_left,
                   order_book_diff_stream, order_books_initialized, tracking_tasks,
                   init_order_books_task, nready>>

(***************************************************************************)
(* _order_book_diff_router: one iteration of the loop.                     *)
(***************************************************************************)
\* DiffRoute without the staleness test
DiffRouteNoReject(ob_message) ==
    IF ob_message.trading_pair \notin DOMAIN tracking_message_queues THEN "queued"
    ELSE "accepted"

\* DiffRoute discarding a diff whose update_id equals the book's snapshot_uid
DiffRouteRejectEqual(ob_message) ==
    IF ob_message.trading_pair \notin DOMAIN tracking_message_queues THEN "queued"
    ELSE IF order_books[ob_message.trading_pair].snapshot_uid >= ob_message.update_id
         THEN "rejected"
         ELSE "accepted"

\* DiffRoute discarding the diffs of a pair that has no inbox
DiffRouteDropUntracked(ob_message) ==
    IF ob_message.trading_pair \notin DOMAIN tracking_message_queues THEN "rejected"
    ELSE IF order_books[ob_message.trading_pair].snapshot_uid > ob_message.update_id
         THEN "rejected"
         ELSE "accepted"

\* what the router does with a popped diff: "queued", "rejected" or "accepted"
DiffRoute(ob_message) ==
    IF ob_message.trading_pair \notin DOMAIN tracking_message_queues THEN "queued"
    ELSE IF order_books[ob_message.trading_pair].snapshot_uid > ob_message.update_id
         THEN "rejected"
         ELSE "accepted"

order_book_diff_router ==
    /\ order_book_diff_router_task
    /\ Awake("order_book_diff_router")
    /\ order_book_diff_stream # <<>>
    /\ LET ob_message == Head(order_book_diff_stream)
           trading_pair == ob_message.trading_pair
           route == DiffRoute(ob_message)
       IN
        /\ order_book_diff_stream' = Tail(order_book_diff_stream)
        /\ saved_message_queues' =
              IF route = "queued"
              THEN [saved_message_queues EXCEPT ![trading_pair] =
                       DequeAppend(@, ob_message, SAVED_QUEUE_MAXLEN)]
              ELSE saved_message_queues
        /\ tracking_message_queues' =
              IF route = "accepted"
              THEN [tracking_message_queues EXCEPT ![trading_pair] = Append(@, ob_message)]
              ELSE tracking_message_queues
        /\ last' = Step("diff_router", trading_pair, ob_message, route)
    /\ UNCHANGED <<other_vars, env_vars, book_vars, task_vars, run_vars, budget_vars, ghost_vars,
                   order_book_snapshot_stream, order_books_initialized, tracking_tasks,
                   init_order_books_task, nready>>

(***************************************************************************)
(* _order_book_snapshot_router: waits for the event, then one iteration    *)
(* per message.  stop() clears the event and cancels the task together, so *)
(* a live task is past the wait exactly when the event is set.             *)
(***************************************************************************)
\* the snapshot router looping without the wait for the event
order_book_snapshot_router_no_wait ==
    /\ order_book_snapshot_router_task
    /\ Awake("order_book_snapshot_router")
    /\ order_book_snapshot_stream # <<>>
    /\ LET ob_message == Head(order_book_snapshot_stream)
           trading_pair == ob_message.trading_pair
           tracked == trading_pair \in DOMAIN tracking_message_queues
       IN
        /\ order_book_snapshot_stream' = Tail(order_book_snapshot_stream)
        /\ tracking_message_queues' =
              IF tracked
              THEN [tracking_message_queues EXCEPT ![trading_pair] = Append(@, ob_message)]
              ELSE tracking_message_queues
        /\ last' = Step("snapshot_router", trading_pair, ob_message,
                        IF tracked THEN "accepted" ELSE "dropped")
    /\ UNCHANGED <<other_vars, env_vars, book_vars, task_vars, run_vars, budget_vars, ghost_vars,
                   saved_message_queues, order_book_diff_stream, order_books_initialized,
                   tracking_tasks, init_order_books_task, nready>>

order_book_snapshot_router ==
    /\ order_book_snapshot_router_task
    /\ Awake("order_book_snapshot_router")
    /\ order_books_initialized
    /\ order_book_snapshot_stream # <<>>
    /\ LET ob_message == Head(order_book_snapshot_stream)
           trading_pair == ob_message.trading_pair
           tracked == trading_pair \in DOMAIN tracking_message_queues
       IN
        /\ order_book_snapshot_stream' = Tail(order_book_snapshot_stream)
        /\ tracking_message_queues' =
              IF tracked
              THEN [tracking_message_queues EXCEPT ![trading_pair] = Append(@, ob_message)]
              ELSE tracking_message_queues
        /\ last' = Step("snapshot_router", trading_pair, ob_message,
                        IF tracked THEN "accepted" ELSE "dropped")
    /\ UNCHANGED <<other_vars, env_vars, book_vars, task_vars, run_vars, budget_vars, ghost_vars,
                   saved_message_queues, order_book_diff_stream, order_books_initialized,
                   tracking_tasks, init_order_books_task, nready>>

(***************************************************************************)
(* _track_single_book(trading_pair): one iteration of the worker's loop.   *)
(***************************************************************************)
\* TrackSource reading the inbox before the saved queue
TrackSourceInboxFirst(trading_pair) ==
    IF /\ trading_pair \in DOMAIN tracking_message_queues
       /\ Len(tracking_message_queues[trading_pair]) > 0
    THEN "inbox"
    ELSE IF Len(saved_message_queues[trading_pair]) > 0 THEN "saved" ELSE "inbox"

\* where the iteration takes its message: the saved queue if it holds any, else the inbox
TrackSource(trading_pair) ==
    IF Len(saved_message_queues[trading_pair]) > 0 THEN "saved" ELSE "inbox"

\* TrackMessage with the two branches taking each other's message type
TrackMessageSwapped(order_book, past_diffs_window, message) ==
    IF message.type = "SNAPSHOT"
    THEN [book |-> apply_diffs(order_book, message.levels, message.update_id),
          window |-> DequeAppend(past_diffs_window, message, PAST_DIFF_WINDOW_SIZE)]
    ELSE IF message.type = "DIFF"
    THEN [book |-> restore_from_snapshot_and_diffs(order_book, message, past_diffs_window),
          window |-> past_diffs_window]
    ELSE [book |-> order_book, window |-> past_diffs_window]

\* TrackMessage handing a snapshot's levels to apply_diffs
TrackMessageSnapshotAsDiff(order_book, past_diffs_window, message) ==
    [book |-> apply_diffs(order_book, message.levels, message.update_id),
     window |-> IF message.type = "DIFF"
                THEN DequeAppend(past_diffs_window, message, PAST_DIFF_WINDOW_SIZE)
                ELSE past_diffs_window]

\* TrackMessage emptying the past-diffs window once a snapshot is restored
TrackMessageClearsWindow(order_book, past_diffs_window, message) ==
    IF message.type = "DIFF"
    THEN [book |-> apply_diffs(order_book, message.levels, message.update_id),
          window |-> DequeAppend(past_diffs_window, message, PAST_DIFF_WINDOW_SIZE)]
    ELSE IF message.type = "SNAPSHOT"
    THEN [book |-> restore_from_snapshot_and_diffs(order_book, message, past_diffs_window),
          window |-> <<>>]
    ELSE [book |-> order_book, window |-> past_diffs_window]

\* TrackMessage restoring from the snapshot alone, without the past diffs
TrackMessageNoReplay(order_book, past_diffs_window, message) ==
    IF message.type = "DIFF"
    THEN [book |-> apply_diffs(order_book, message.levels, message.update_id),
          window |-> DequeAppend(past_diffs_window, message, PAST_DIFF_WINDOW_SIZE)]
    ELSE IF message.type = "SNAPSHOT"
    THEN [book |-> restore_from_snapshot_and_diffs(order_book, message, <<>>),
          window |-> past_diffs_window]
    ELSE [book |-> order_book, window |-> past_diffs_window]

\* the book and the past-diffs window after the worker handled the message
TrackMessage(order_book, past_diffs_window, message) ==
    IF message.type = "DIFF"
    THEN [book |-> apply_diffs(order_book, message.levels, message.update_id),
          window |-> DequeAppend(past_diffs_window, message, PAST_DIFF_WINDOW_SIZE)]
    ELSE IF message.type = "SNAPSHOT"
    THEN [book |-> restore_from_snapshot_and_diffs(order_book, message, past_diffs_window),
          window |-> past_diffs_window]
    ELSE [book |-> order_book, window |-> past_diffs_window]

track_single_book(trading_pair) ==
    /\ trading_pair \in tracking_tasks
    /\ Awake(trading_pair)
    /\ LET source == TrackSource(trading_pair)
           saved_messages == saved_message_queues[trading_pair]
           message_queue == tracking_message_queues[trading_pair]
       IN
        /\ source = "inbox" => message_queue # <<>>
        /\ LET message == IF source = "saved" THEN Head(saved_messages)
                                               ELSE Head(message_queue)
               order_book == order_books[trading_pair]
               after == TrackMessage(order_book, past_diffs_windows[trading_pair], message)
               window == past_diffs_windows[trading_pair]
               changed == after.book # order_book
           IN
            /\ saved_message_queues' =
                  IF source = "saved"
                  THEN [saved_message_queues EXCEPT ![trading_pair] = Tail(@)]
                  ELSE saved_message_queues
            /\ tracking_message_queues' =
                  IF source = "inbox"
                  THEN [tracking_message_queues EXCEPT ![trading_pair] = Tail(@)]
                  ELSE tracking_message_queues
            /\ order_books' = [order_books EXCEPT ![trading_pair] = after.book]
            /\ past_diffs_windows' = [past_diffs_windows EXCEPT ![trading_pair] = after.window]
            /\ applied_uid' =
                  IF message.type = "DIFF" /\ changed
                  THEN [applied_uid EXCEPT ![trading_pair] = message.update_id]
                  ELSE applied_uid
            /\ snapshot_floor' =
                  IF message.type = "SNAPSHOT" /\ message.update_id > snapshot_floor[trading_pair]
                  THEN [snapshot_floor EXCEPT ![trading_pair] = message.update_id]
                  ELSE snapshot_floor
            /\ snapshot_last' =
                  IF message.type = "SNAPSHOT"
                  THEN [snapshot_last EXCEPT ![trading_pair] = message.update_id]
                  ELSE snapshot_last
            /\ window_stale' =
                  IF message.type = "DIFF"
                  THEN [window_stale EXCEPT ![trading_pair] =
                           DequeAppend(@, message.update_id <= order_book.last_diff_uid,
                                       PAST_DIFF_WINDOW_SIZE)]
                  ELSE window_stale
            /\ last' = WorkerStep(
                  IF message.type = "DIFF" THEN "track_diff" ELSE "track_snapshot",
                  trading_pair, message, source, changed,
                  message.type = "DIFF" /\ message.update_id <= order_book.last_diff_uid,
                  /\ message.type = "SNAPSHOT"
                  /\ window # <<>>
                  /\ \A i \in 1 .. Len(window) : message.update_id < window[i].update_id)
    /\ UNCHANGED <<other_vars, env_vars, stream_vars, task_vars, run_vars, budget_vars,
                   order_books_initialized, tracking_tasks, init_order_books_task, nready>>

(***************************************************************************)
(* The throttler.  RateLimit, TaskLog and the contexts' construction are   *)
(* from spec.md 3 and 4.A; flush, acquire and __aexit__ are                *)
(* AsyncRequestContextBase's.  Time is counted in ticks of one retry       *)
(* interval.  No await lies between acquire()'s capacity check and its     *)
(* append, and the lock is free at every suspension point, so one pass of  *)
(* the loop (flush, check, and on success the append) is one action.       *)
(***************************************************************************)
Callers == {"c1", "c2", "c3"}
LimitIds == {"ORDERS", "ALL"}

\* RateLimit(limit_id, limit, time_interval, weight, linked_limits)
RateLimits ==
    [l \in LimitIds |->
        IF l = "ORDERS"
        THEN [limit |-> 2, time_interval |-> 2, weight |-> 1,
              linked_limits |-> <<[limit_id |-> "ALL", weight |-> 1]>>]
        ELSE [limit |-> 3, time_interval |-> 3, weight |-> 2, linked_limits |-> <<>>]]

TaskLog(timestamp, rate_limit, weight) ==
    [timestamp |-> timestamp, rate_limit |-> rate_limit, weight |-> weight]

\* list.remove(x): the list without its first element equal to x
RECURSIVE ListRemove(_, _)
ListRemove(list, x) ==
    IF list = <<>> THEN <<>>
    ELSE IF Head(list) = x THEN Tail(list)
    ELSE <<Head(list)>> \o ListRemove(Tail(list), x)

\* elapsed > time_interval * (1 + safety_margin_pct)
Expired(task, now) ==
    (now - task.timestamp) * 100
        > RateLimits[task.rate_limit].time_interval * (100 + SafetyMarginPct)

\* the for loop of flush() from position i: the list is indexed while elements are
\* removed from it, so the element after a removed one is passed over
RECURSIVE FlushFrom(_, _, _)
FlushFrom(logs, i, now) ==
    IF i > Len(logs) THEN logs
    ELSE IF Expired(logs[i], now)
         THEN FlushFrom(ListRemove(logs, logs[i]), i + 1, now)
         ELSE FlushFrom(logs, i + 1, now)

\* flush removing every task log as old as its limit's interval
flush_at_interval(logs, now) ==
    SelectSeq(logs, LAMBDA task :
        now - task.timestamp < RateLimits[task.rate_limit].time_interval)

flush(logs, now) == FlushFrom(logs, 1, now)

\* the weight logged against limit_id by the task logs not older than its interval
RECURSIVE CapacityUsed(_, _, _)
CapacityUsed(logs, limit_id, now) ==
    IF logs = <<>> THEN 0
    ELSE (IF /\ Head(logs).rate_limit = limit_id
             /\ now - Head(logs).timestamp <= RateLimits[limit_id].time_interval
          THEN Head(logs).weight ELSE 0)
         + CapacityUsed(Tail(logs), limit_id, now)

\* the context's own limit with its weight, then its linked limits with theirs
ListOfLimits(limit_id) ==
    <<[limit_id |-> limit_id, weight |-> RateLimits[limit_id].weight]>>
        \o RateLimits[limit_id].linked_limits

within_capacity(logs, limit_id, now) ==
    \A i \in 1 .. Len(ListOfLimits(limit_id)) :
        LET l == ListOfLimits(limit_id)[i] IN
        CapacityUsed(logs, l.limit_id, now) + l.weight <= RateLimits[l.limit_id].limit

\* the task logs acquire() appends: one for the limit, one per linked limit, one timestamp
NewTaskLogs(limit_id, now) ==
    [i \in 1 .. Len(ListOfLimits(limit_id)) |->
        TaskLog(now, ListOfLimits(limit_id)[i].limit_id, ListOfLimits(limit_id)[i].weight)]

RECURSIVE Logged(_, _)
Logged(done, logs) ==
    IF logs = <<>> THEN done
    ELSE Logged([done EXCEPT ![Head(logs).rate_limit][Head(logs).timestamp] =
                     @ + Head(logs).weight],
                Tail(logs))

ThrottlerInit ==
    /\ task_logs = <<>>
    /\ time_now = 0
    /\ acquire_pc = [c \in Callers |-> [pc |-> "idle", until |-> 0]]
    /\ acquire_limit = [c \in Callers |-> "-"]
    /\ completed = [l \in LimitIds |-> [t \in 0 .. MaxTime |-> 0]]

\* AsyncThrottler.execute_task(limit_id): a context over the shared task logs and
\* lock; the caller's `async with` is about to run acquire()
execute_task(c, limit_id) ==
    /\ calls_left > 0
    /\ acquire_pc[c].pc = "idle"
    /\ acquire_pc' = [acquire_pc EXCEPT ![c] = [pc |-> "check", until |-> 0]]
    /\ acquire_limit' = [acquire_limit EXCEPT ![c] = limit_id]
    /\ calls_left' = calls_left - 1
    /\ UNCHANGED <<non_throttler_vars, task_logs, time_now, completed>>

\* acquire() appending its task logs without the capacity check
acquire_unchecked(c) ==
    /\ acquire_pc[c].pc = "check"
    /\ LET flushed == flush(task_logs, time_now) IN
        /\ task_logs' = flushed \o NewTaskLogs(acquire_limit[c], time_now)
        /\ acquire_pc' = [acquire_pc EXCEPT ![c] = [pc |-> "acquired", until |-> 0]]
        /\ completed' = Logged(completed, NewTaskLogs(acquire_limit[c], time_now))
    /\ UNCHANGED <<non_throttler_vars, time_now, acquire_limit, calls_left>>

\* acquire() suspended between the capacity check and the append of its task logs
acquire_two_sections(c) ==
    /\ acquire_pc[c].pc \in {"check", "append"}
    /\ LET flushed == flush(task_logs, time_now) IN
        IF acquire_pc[c].pc = "append"
        THEN /\ task_logs' = task_logs \o NewTaskLogs(acquire_limit[c], time_now)
             /\ acquire_pc' = [acquire_pc EXCEPT ![c] = [pc |-> "acquired", until |-> 0]]
             /\ completed' = Logged(completed, NewTaskLogs(acquire_limit[c], time_now))
        ELSE IF within_capacity(flushed, acquire_limit[c], time_now)
        THEN /\ task_logs' = flushed
             /\ acquire_pc' = [acquire_pc EXCEPT ![c] = [pc |-> "append", until |-> 0]]
             /\ UNCHANGED completed
        ELSE /\ task_logs' = flushed
             /\ acquire_pc' = [acquire_pc EXCEPT ![c] = [pc |-> "sleep", until |-> time_now + 1]]
             /\ UNCHANGED completed
    /\ UNCHANGED <<non_throttler_vars, time_now, acquire_limit, calls_left>>

\* acquire() testing the capacity on the log with its own task logs already counted
acquire_counts_itself(c) ==
    /\ acquire_pc[c].pc = "check"
    /\ LET flushed == flush(task_logs, time_now) IN
        IF within_capacity(flushed \o NewTaskLogs(acquire_limit[c], time_now),
                           acquire_limit[c], time_now)
        THEN /\ task_logs' = flushed \o NewTaskLogs(acquire_limit[c], time_now)
             /\ acquire_pc' = [acquire_pc EXCEPT ![c] = [pc |-> "acquired", until |-> 0]]
             /\ completed' = Logged(completed, NewTaskLogs(acquire_limit[c], time_now))
        ELSE /\ task_logs' = flushed
             /\ acquire_pc' = [acquire_pc EXCEPT ![c] = [pc |-> "sleep", until |-> time_now + 1]]
             /\ UNCHANGED completed
    /\ UNCHANGED <<non_throttler_vars, time_now, acquire_limit, calls_left>>

\* acquire(): one pass of the loop
acquire(c) ==
    /\ acquire_pc[c].pc = "check"
    /\ LET flushed == flush(task_logs, time_now) IN
        IF within_capacity(flushed, acquire_limit[c], time_now)
        THEN /\ task_logs' = flushed \o NewTaskLogs(acquire_limit[c], time_now)
             /\ acquire_pc' = [acquire_pc EXCEPT ![c] = [pc |-> "acquired", until |-> 0]]
             /\ completed' = Logged(completed, NewTaskLogs(acquire_limit[c], time_now))
        ELSE /\ task_logs' = flushed
             /\ acquire_pc' = [acquire_pc EXCEPT ![c] = [pc |-> "sleep", until |-> time_now + 1]]
             /\ UNCHANGED completed
    /\ UNCHANGED <<non_throttler_vars, time_now, acquire_limit, calls_left>>

\* asyncio.sleep(retry_interval) returns
acquire_retry(c) ==
    /\ acquire_pc[c].pc = "sleep"
    /\ time_now >= acquire_pc[c].until
    /\ acquire_pc' = [acquire_pc EXCEPT ![c] = [pc |-> "check", until |-> 0]]
    /\ UNCHANGED <<non_throttler_vars, task_logs, time_now, acquire_limit, calls_left, completed>>

\* __aexit__ taking the caller's task logs out of the log again
aexit_releases(c) ==
    /\ acquire_pc[c].pc = "acquired"
    /\ acquire_pc' = [acquire_pc EXCEPT ![c] = [pc |-> "idle", until |-> 0]]
    /\ acquire_limit' = [acquire_limit EXCEPT ![c] = "-"]
    /\ task_logs' = SelectSeq(task_logs, LAMBDA task : task.rate_limit # acquire_limit[c])
    /\ UNCHANGED <<non_throttler_vars, time_now, calls_left, completed>>

\* __aexit__: the caller leaves the `async with` block
aexit(c) ==
    /\ acquire_pc[c].pc = "acquired"
    /\ acquire_pc' = [acquire_pc EXCEPT ![c] = [pc |-> "idle", until |-> 0]]
    /\ acquire_limit' = [acquire_limit EXCEPT ![c] = "-"]
    /\ UNCHANGED <<non_throttler_vars, task_logs, time_now, calls_left, completed>>

\* a cancellation that arrives after the append of the caller's own task log
cancel_acquire_mid_append(c) ==
    /\ acquire_pc[c].pc \in {"check", "sleep"}
    /\ acquire_pc' = [acquire_pc EXCEPT ![c] = [pc |-> "idle", until |-> 0]]
    /\ acquire_limit' = [acquire_limit EXCEPT ![c] = "-"]
    /\ task_logs' = task_logs \o
           <<TaskLog(time_now, acquire_limit[c], RateLimits[acquire_limit[c]].weight)>>
    /\ UNCHANGED <<non_throttler_vars, time_now, calls_left, completed>>

\* the caller's task is cancelled where it is suspended, before admission
cancel_acquire(c) ==
    /\ acquire_pc[c].pc \in {"check", "sleep"}
    /\ acquire_pc' = [acquire_pc EXCEPT ![c] = [pc |-> "idle", until |-> 0]]
    /\ acquire_limit' = [acquire_limit EXCEPT ![c] = "-"]
    /\ UNCHANGED <<non_throttler_vars, task_logs, time_now, calls_left, completed>>

\* the clock advances
Tick ==
    /\ time_now < MaxTime
    /\ time_now' = time_now + 1
    /\ UNCHANGED <<non_throttler_vars, task_logs, acquire_pc, acquire_limit, calls_left, completed>>

(***************************************************************************)
(* The last-trade-price loop and the trade loop of the tracker, after      *)
(* initialization.  OrderBook.apply_trade is from spec.md 4.D.  Time is    *)
(* counted in seconds; the loop's own computation takes no time, a REST    *)
(* call any number of seconds.                                             *)
(***************************************************************************)
\* the loop waiting: on the event, or in asyncio.sleep until `until`
Waiting(until) == [pc |-> "wait", args |-> {}, until |-> until]

NeverCalled == 0 - 1

NoCall == [op |-> "none", args |-> {}, at |-> 0, began |-> [p \in Pairs |-> NeverCalled]]

\* a trade message: the pair, the price and the trade id of one execution
TradeMessage(p, price, trade_id) ==
    [type |-> "TRADE", trading_pair |-> p, price |-> price, trade_id |-> trade_id]

\* the trades the exchange reports: the later execution has the smaller trade id
Trades == {[price |-> 2, trade_id |-> 2], [price |-> 3, trade_id |-> 1]}

TradeStep(op, msg) == [op |-> op, msg |-> msg]

NoTrade == TradeStep("none", TradeMessage("-", 0, 0))

\* the task start() spawned for a loop is running and past its wait for the event
LoopRuns(name) ==
    /\ order_books_initialized
    /\ Task(name, "-", run) \in live_tasks

\* the trade loops are not running
TradesIdle ==
    /\ mono_now = 0
    /\ last_applied_trade = [p \in Pairs |-> 0]
    /\ last_trade_price = [p \in Pairs |-> 0]
    /\ last_trade_price_rest_updated = [p \in Pairs |-> 0]
    /\ update_last_trade_prices_task = Waiting(0)
    /\ prices_last = NoCall
    /\ order_book_trade_stream = <<>>
    /\ trade_last = NoTrade

\* the pairs whose book has an old last trade and an old REST price update
outdateds(applied, rest_updated, now) ==
    {p \in Pairs : /\ applied[p] < now - OutdatedTradeAge
                   /\ rest_updated[p] < now - TradeRestRefreshMin}

\* the top of the loop body: a REST call for the outdated pairs, or the sleep
LoopTop(applied, rest_updated, now) ==
    IF outdateds(applied, rest_updated, now) # {}
    THEN [pc |-> "call", args |-> outdateds(applied, rest_updated, now), until |-> 0]
    ELSE Waiting(now + LoopSleep)

\* the times at which the latest call naming each pair began, once the loop is at `task`
Began(task) ==
    [p \in Pairs |-> IF task.pc = "call" /\ p \in task.args THEN mono_now
                                                            ELSE prices_last.began[p]]

\* the event is set, or a sleep of the loop ends
update_last_trade_prices_wake ==
    /\ LoopRuns("update_last_trade_prices")
    /\ update_last_trade_prices_task.pc = "wait"
    /\ mono_now >= update_last_trade_prices_task.until
    /\ update_last_trade_prices_task' =
           LoopTop(last_applied_trade, last_trade_price_rest_updated, mono_now)
    /\ prices_last' = [prices_last EXCEPT !.began = Began(update_last_trade_prices_task')]
    /\ UNCHANGED <<tracker_vars, throttler_vars, funding_vars, loop_errors, executor, mono_now, last_applied_trade,
                   last_trade_price, last_trade_price_rest_updated,
                   order_book_trade_stream, trade_last>>

\* get_last_traded_prices returns the price of the pairs in `returned`
update_last_trade_prices_return(returned, price) ==
    /\ LoopRuns("update_last_trade_prices")
    /\ update_last_trade_prices_task.pc = "call"
    /\ returned \subseteq update_last_trade_prices_task.args
    /\ last_trade_price' =
           [p \in Pairs |-> IF p \in returned THEN price ELSE last_trade_price[p]]
    /\ last_trade_price_rest_updated' =
           [p \in Pairs |-> IF p \in returned THEN mono_now
                                              ELSE last_trade_price_rest_updated[p]]
    /\ update_last_trade_prices_task' =
           LoopTop(last_applied_trade, last_trade_price_rest_updated', mono_now)
    /\ prices_last' = [op |-> "returned", args |-> update_last_trade_prices_task.args,
                       at |-> mono_now, began |-> Began(update_last_trade_prices_task')]
    /\ UNCHANGED <<tracker_vars, throttler_vars, funding_vars, loop_errors, executor, mono_now, last_applied_trade,
                   order_book_trade_stream, trade_last>>

\* get_last_traded_prices raises
update_last_trade_prices_raise ==
    /\ LoopRuns("update_last_trade_prices")
    /\ update_last_trade_prices_task.pc = "call"
    /\ update_last_trade_prices_task' = Waiting(mono_now + ErrorSleep)
    /\ prices_last' = [op |-> "raised", args |-> update_last_trade_prices_task.args,
                       at |-> mono_now, began |-> prices_last.began]
    /\ UNCHANGED <<tracker_vars, throttler_vars, funding_vars, loop_errors, executor, mono_now, last_applied_trade,
                   last_trade_price, last_trade_price_rest_updated,
                   order_book_trade_stream, trade_last>>

\* the trade listener puts a parsed trade message on the trade stream
TradeArrives(p, trade) ==
    /\ msgs_left > 0
    /\ aux_tasks.order_book_trade_listener_task
    /\ order_book_trade_stream' =
           Append(order_book_trade_stream, TradeMessage(p, trade.price, trade.trade_id))
    /\ msgs_left' = msgs_left - 1
    /\ UNCHANGED <<env_vars, book_vars, queue_vars, stream_vars, task_vars, run_vars,
                   ghost_vars, starts_left, order_books_initialized, tracking_tasks,
                   init_order_books_task, nready, last, throttler_vars, funding_vars,
                   loop_errors, executor, mono_now, last_applied_trade,
                   last_trade_price,
                   last_trade_price_rest_updated, update_last_trade_prices_task,
                   prices_last, trade_last>>

\* OrderBook.apply_trade: the price and the time of the book's last trade
apply_trade(trade_message) ==
    /\ last_trade_price' =
           [last_trade_price EXCEPT ![trade_message.trading_pair] = trade_message.price]
    /\ last_applied_trade' =
           [last_applied_trade EXCEPT ![trade_message.trading_pair] = mono_now]

\* _emit_trade_event_loop applying a trade only if its trade id is the largest so far
emit_trade_event_checks_id ==
    /\ LoopRuns("emit_trade_event")
    /\ Awake("emit_trade_event")
    /\ order_book_trade_stream # <<>>
    /\ LET trade_message == Head(order_book_trade_stream) IN
        IF /\ trade_message.trading_pair \in DOMAIN order_books
           /\ trade_message.trade_id > trade_last.msg.trade_id
        THEN /\ apply_trade(trade_message)
             /\ trade_last' = TradeStep("applied", trade_message)
        ELSE /\ trade_last' = TradeStep("rejected", trade_message)
             /\ UNCHANGED <<last_trade_price, last_applied_trade>>
    /\ order_book_trade_stream' = Tail(order_book_trade_stream)
    /\ UNCHANGED <<tracker_vars, throttler_vars, funding_vars, loop_errors, executor, mono_now,
                   last_trade_price_rest_updated, update_last_trade_prices_task,
                   prices_last>>

\* _emit_trade_event_loop, after its wait for the event: the next trade of the
\* stream is applied to the book of its pair, or rejected if the pair has no book
emit_trade_event ==
    /\ LoopRuns("emit_trade_event")
    /\ Awake("emit_trade_event")
    /\ order_book_trade_stream # <<>>
    /\ LET trade_message == Head(order_book_trade_stream) IN
        IF trade_message.trading_pair \in DOMAIN order_books
        THEN /\ apply_trade(trade_message)
             /\ trade_last' = TradeStep("applied", trade_message)
        ELSE /\ trade_last' = TradeStep("rejected", trade_message)
             /\ UNCHANGED <<last_trade_price, last_applied_trade>>
    /\ order_book_trade_stream' = Tail(order_book_trade_stream)
    /\ UNCHANGED <<tracker_vars, throttler_vars, funding_vars, loop_errors, executor, mono_now,
                   last_trade_price_rest_updated, update_last_trade_prices_task,
                   prices_last>>

\* a second passes; a sleep that is over ends before the next second
TickMono ==
    /\ mono_now < MaxMono
    /\ ~ (/\ LoopRuns("update_last_trade_prices")
          /\ update_last_trade_prices_task.pc = "wait"
          /\ mono_now >= update_last_trade_prices_task.until)
    /\ mono_now' = mono_now + 1
    /\ UNCHANGED <<tracker_vars, throttler_vars, funding_vars, loop_errors, executor, last_applied_trade, last_trade_price,
                   last_trade_price_rest_updated, update_last_trade_prices_task,
                   prices_last, order_book_trade_stream, trade_last>>


(***************************************************************************)
(* The funding-rate feed of Binance perpetuals: FundingRateBase and        *)
(* BinancePerpetualFundingRates.  start_network spawns the REST loop only  *)
(* (the websocket task of line 60 is commented out).  Rates are counted in *)
(* units of 0.0001.  The exchange and its symbol table are not part of the *)
(* sources at hand.                                                        *)
(***************************************************************************)
FeedTradingPairs == <<"A-USDT", "B-USDT">>
\* CUSDT is listed on the exchange and is not a pair of the feed
Symbols == {"AUSDT", "BUSDT", "CUSDT"}
RawRates == {1, 2}

\* ExchangeBase.exchange_symbol_associated_to_pair
exchange_symbol_associated_to_pair(tp) == IF tp = "A-USDT" THEN "AUSDT" ELSE "BUSDT"

\* the funding interval the exchange applies to a symbol
ExchangeFundingIntervalHours == [sym \in Symbols |-> IF sym = "AUSDT" THEN 8 ELSE 4]

\* responses of /fapi/v1/fundingInfo: rows for some of the symbols
FundingInfoResponses ==
    {<<>>,
     <<[symbol |-> "AUSDT", fundingIntervalHours |-> ExchangeFundingIntervalHours["AUSDT"]]>>,
     <<[symbol |-> "AUSDT", fundingIntervalHours |-> ExchangeFundingIntervalHours["AUSDT"]],
       [symbol |-> "BUSDT", fundingIntervalHours |-> ExchangeFundingIntervalHours["BUSDT"]]>>}

\* responses of /fapi/v1/premiumIndex: at most one row per symbol
PremiumIndexResponses ==
    {<<>>} \cup {<<[symbol |-> "AUSDT", lastFundingRate |-> r]>> : r \in RawRates}
           \cup {<<[symbol |-> "BUSDT", lastFundingRate |-> r]>> : r \in RawRates}
           \cup {<<[symbol |-> "AUSDT", lastFundingRate |-> r],
                    [symbol |-> "BUSDT", lastFundingRate |-> 1]>> : r \in RawRates}
           \cup {<<[symbol |-> "CUSDT", lastFundingRate |-> 1]>>,
                 <<[symbol |-> "BUSDT", lastFundingRate |-> 2],
                   [symbol |-> "CUSDT", lastFundingRate |-> 1]>>}

RowOf(data, sym) == CHOOSE i \in 1 .. Len(data) : data[i].symbol = sym

SymbolsOf(data) == {data[i].symbol : i \in 1 .. Len(data)}

\* {str(row["symbol"]): int(row["fundingIntervalHours"]) for row in data}
parse_rest_funding_info(data) ==
    [sym \in SymbolsOf(data) |-> data[RowOf(data, sym)].fundingIntervalHours]

\* the rate of each row, scaled to the window when the symbol's interval is known;
\* for the intervals of the model the division of line 133 is exact
parse_rest_fundingrates(data, interval_hours) ==
    [sym \in SymbolsOf(data) |->
        IF sym \in DOMAIN interval_hours
        THEN data[RowOf(data, sym)].lastFundingRate
                 * (standardization_duration_hours \div interval_hours[sym])
        ELSE data[RowOf(data, sym)].lastFundingRate]

\* the pairs of the feed whose symbol is in the update
UpdatedPairs(funding_info_updates) ==
    {FeedTradingPairs[i] : i \in {j \in 1 .. Len(FeedTradingPairs) :
        exchange_symbol_associated_to_pair(FeedTradingPairs[j])
            \in DOMAIN funding_info_updates}}

\* _update_all_funding_info replacing the cache by the pairs of the update
update_all_funding_info_replacing(rates, funding_info_updates) ==
    [tp \in UpdatedPairs(funding_info_updates) |->
        funding_info_updates[exchange_symbol_associated_to_pair(tp)]]

\* _update_all_funding_info: the rates after the loop over the feed's pairs
update_all_funding_info(rates, funding_info_updates) ==
    [tp \in DOMAIN rates \cup UpdatedPairs(funding_info_updates) |->
        IF tp \in UpdatedPairs(funding_info_updates)
        THEN funding_info_updates[exchange_symbol_associated_to_pair(tp)]
        ELSE rates[tp]]

\* datetime.now() during a poll: the number of the poll
PollTime == MaxPolls - polls_left

\* _update_all_funding_info: _last_update_time after the loop over the feed's pairs
update_time(time, funding_info_updates, now) ==
    IF UpdatedPairs(funding_info_updates) # {} THEN now ELSE time

FundingStep(op, updates) == [op |-> op, updates |-> updates]

\* the task of a handle is cancelled unless the handle is None
CancelTask(tasks, handle) == tasks \ {handle}

\* the state of a call of listen_for_subscriptions
Listening(pc, ws, goes_on) == [pc |-> pc, ws |-> ws, goes_on |-> goes_on]

\* no call of listen_for_subscriptions was made
NotListening == Listening("none", FALSE, FALSE)

\* FundingRateBase.ready
ready == Len(FeedTradingPairs) <= Cardinality(DOMAIN funding_rates)

\* the feed as __init__ leaves it
FundingIdle ==
    /\ funding_rates = <<>>
    /\ funding_interval_hours = <<>>
    /\ fetch_fundingrate_task = "none"
    /\ polls_left = 0
    /\ frame_raw = [i \in 1 .. 0 |-> 0]
    /\ last_update_time = 0
    /\ fetch_loops = {}
    /\ fetch_fundingrate_task_id = 0
    /\ listen_fundingrate_task = 0
    /\ listen_for_subscriptions_task = NotListening
    /\ funding_last = FundingStep("none", <<>>)

\* start_network spawning the REST loop without stop_network before it
start_network_without_stop ==
    /\ polls_left > 0
    /\ fetch_fundingrate_task' = "info"
    /\ polls_left' = polls_left - 1
    /\ fetch_loops' = fetch_loops \cup {PollTime + 1}
    /\ fetch_fundingrate_task_id' = PollTime + 1
    /\ funding_last' = FundingStep("start_network", <<>>)
    /\ UNCHANGED <<tracker_vars, throttler_vars, trade_vars, loop_errors, executor, funding_rates,
                   funding_interval_hours, frame_raw, last_update_time,
                   listen_fundingrate_task, listen_for_subscriptions_task>>

\* start_network: stop_network, initialize_exchange_data (which does nothing and
\* does not suspend), then the REST loop is spawned
start_network ==
    /\ polls_left > 0
    /\ fetch_fundingrate_task' = "info"
    /\ polls_left' = polls_left - 1
    /\ fetch_loops' =
           CancelTask(CancelTask(fetch_loops, fetch_fundingrate_task_id),
                      listen_fundingrate_task) \cup {PollTime + 1}
    /\ fetch_fundingrate_task_id' = PollTime + 1
    /\ listen_fundingrate_task' = 0
    /\ funding_last' = FundingStep("start_network", <<>>)
    /\ UNCHANGED <<tracker_vars, throttler_vars, trade_vars, loop_errors, executor, funding_rates,
                   funding_interval_hours, frame_raw, last_update_time,
                   listen_for_subscriptions_task>>

\* stop_network: the loop is cancelled
stop_network ==
    /\ fetch_fundingrate_task' = "none"
    /\ fetch_loops' = CancelTask(CancelTask(fetch_loops, fetch_fundingrate_task_id),
                                 listen_fundingrate_task)
    /\ fetch_fundingrate_task_id' = 0
    /\ listen_fundingrate_task' = 0
    /\ funding_last' = FundingStep("stop_network", <<>>)
    /\ UNCHANGED <<tracker_vars, throttler_vars, trade_vars, loop_errors, executor, funding_rates,
                   funding_interval_hours, polls_left, frame_raw, last_update_time,
                   listen_for_subscriptions_task>>

\* _fetch_funding_info: the request returns and replaces the intervals
fetch_funding_info(data) ==
    /\ fetch_fundingrate_task = "info"
    /\ funding_interval_hours' = parse_rest_funding_info(data)
    /\ fetch_fundingrate_task' = "rates"
    /\ funding_last' = FundingStep("fetch_funding_info", <<>>)
    /\ UNCHANGED <<tracker_vars, throttler_vars, trade_vars, loop_errors, executor, funding_rates, polls_left,
                   frame_raw,
                   last_update_time, funding_task_vars>>

\* _fetch_funding_info: the request raises; the exception is logged
fetch_funding_info_raises ==
    /\ fetch_fundingrate_task = "info"
    /\ fetch_fundingrate_task' = "rates"
    /\ funding_last' = FundingStep("fetch_funding_info_raises", <<>>)
    /\ UNCHANGED <<tracker_vars, throttler_vars, trade_vars, loop_errors, executor, funding_rates,
                   funding_interval_hours, polls_left, frame_raw,
                   last_update_time, funding_task_vars>>

\* fetch_fundingrates: the request returns, the rates are parsed and cached
fetch_fundingrates(data) ==
    /\ fetch_fundingrate_task = "rates"
    /\ funding_rates' = update_all_funding_info(funding_rates,
                            parse_rest_fundingrates(data, funding_interval_hours))
    /\ frame_raw' =
           [tp \in DOMAIN funding_rates' |->
               IF exchange_symbol_associated_to_pair(tp) \in SymbolsOf(data)
               THEN data[RowOf(data, exchange_symbol_associated_to_pair(tp))].lastFundingRate
               ELSE frame_raw[tp]]
    /\ last_update_time' =
           update_time(last_update_time,
                       parse_rest_fundingrates(data, funding_interval_hours), PollTime)
    /\ funding_last' = FundingStep("update_all_funding_info",
                                   parse_rest_fundingrates(data, funding_interval_hours))
    /\ fetch_fundingrate_task' = "sleep"
    /\ UNCHANGED <<tracker_vars, throttler_vars, trade_vars, loop_errors, executor, funding_interval_hours,
                   polls_left, funding_task_vars>>

\* fetch_fundingrates: the request raises; the loop logs and sleeps
fetch_fundingrates_raises ==
    /\ fetch_fundingrate_task = "rates"
    /\ fetch_fundingrate_task' = "sleep"
    /\ funding_last' = FundingStep("fetch_fundingrates_raises", <<>>)
    /\ UNCHANGED <<tracker_vars, throttler_vars, trade_vars, loop_errors, executor, funding_rates,
                   funding_interval_hours, polls_left, frame_raw,
                   last_update_time, funding_task_vars>>

\* the loop's sleep ends and the next poll begins
fetch_fundingrates_loop ==
    /\ fetch_fundingrate_task = "sleep"
    /\ polls_left > 0
    /\ fetch_fundingrate_task' = "info"
    /\ polls_left' = polls_left - 1
    /\ funding_last' = FundingStep("fetch_fundingrates_loop", <<>>)
    /\ UNCHANGED <<tracker_vars, throttler_vars, trade_vars, loop_errors, executor, funding_rates,
                   funding_interval_hours, frame_raw,
                   last_update_time, funding_task_vars>>

InitFunding ==
    /\ ExecutorIdle
    /\ TrackerInit
    /\ ThrottlerInit
    /\ TradesIdle
    /\ calls_left = 0
    /\ trading_pairs = <<"A">>
    /\ feed_pairs = {}
    /\ rest_uids = {}
    /\ msgs_left = 0
    /\ starts_left = 0
    /\ funding_rates = <<>>
    /\ funding_interval_hours = <<>>
    /\ fetch_fundingrate_task = "none"
    /\ polls_left = MaxPolls
    /\ frame_raw = [i \in 1 .. 0 |-> 0]
    /\ last_update_time = 0
    /\ fetch_loops = {}
    /\ fetch_fundingrate_task_id = 0
    /\ listen_fundingrate_task = 0
    /\ listen_for_subscriptions_task = NotListening
    /\ funding_last = FundingStep("none", <<>>)

NextFunding ==
    \/ start_network
    \/ stop_network
    \/ \E data \in FundingInfoResponses : fetch_funding_info(data)
    \/ fetch_funding_info_raises
    \/ \E data \in PremiumIndexResponses : fetch_fundingrates(data)
    \/ fetch_fundingrates_raises
    \/ fetch_fundingrates_loop

SpecFunding == InitFunding /\ [][NextFunding]_vars

(***************************************************************************)
(* listen_for_subscriptions.  start_network does not spawn it (line 60 is  *)
(* a comment), so the task is one a user of the feed makes of the public   *)
(* coroutine, and that user cancels it.  One iteration: connect and        *)
(* subscribe, process messages until an exception; ConnectionError is      *)
(* logged, another Exception is logged and followed by a sleep of 1 s, a   *)
(* CancelledError is re-raised; in each case `finally` awaits              *)
(* _on_interruption, which awaits ws.disconnect() if ws is not None and    *)
(* then clears the rates.  WSAssistant is not part of the sources at hand: *)
(* disconnect() suspends and returns, as spec.md 4.B and 6 describe it.    *)
(***************************************************************************)
\* frames of the stream !markPrice@arr: rows of symbol s and rate r
MarkPriceFrames ==
    {<<[s |-> "AUSDT", r |-> 1]>>,
     <<[s |-> "AUSDT", r |-> 2], [s |-> "BUSDT", r |-> 1]>>}

\* {str(row["s"]): Decimal(row["r"]) for row in data}
parse_websocket_message(data) ==
    [sym \in {data[i].s : i \in 1 .. Len(data)} |->
        data[CHOOSE i \in 1 .. Len(data) : data[i].s = sym].r]

\* the coroutine is made a task
listen_for_subscriptions ==
    /\ listen_for_subscriptions_task.pc = "none"
    /\ listen_for_subscriptions_task' = Listening("connect", FALSE, FALSE)
    /\ funding_last' = FundingStep("listen_for_subscriptions", <<>>)
    /\ UNCHANGED <<tracker_vars, throttler_vars, trade_vars, loop_errors, executor, funding_rates,
                   funding_interval_hours, fetch_fundingrate_task, polls_left, frame_raw,
                   last_update_time, fetch_loops, fetch_fundingrate_task_id,
                   listen_fundingrate_task>>

\* _connected_websocket_assistant and _subscribe_channels return
connected_websocket_assistant ==
    /\ listen_for_subscriptions_task.pc = "connect"
    /\ listen_for_subscriptions_task' = Listening("listen", TRUE, FALSE)
    /\ funding_last' = FundingStep("connected_websocket_assistant", <<>>)
    /\ UNCHANGED <<tracker_vars, throttler_vars, trade_vars, loop_errors, executor, funding_rates,
                   funding_interval_hours, fetch_fundingrate_task, polls_left, frame_raw,
                   last_update_time, fetch_loops, fetch_fundingrate_task_id,
                   listen_fundingrate_task>>

\* _process_websocket_messages_task: a frame is parsed and merged into the rates
process_websocket_messages(data) ==
    /\ listen_for_subscriptions_task.pc = "listen"
    /\ funding_rates' = update_all_funding_info(funding_rates, parse_websocket_message(data))
    /\ frame_raw' =
           [tp \in DOMAIN funding_rates' |->
               IF exchange_symbol_associated_to_pair(tp)
                      \in DOMAIN parse_websocket_message(data)
               THEN parse_websocket_message(data)[exchange_symbol_associated_to_pair(tp)]
               ELSE frame_raw[tp]]
    /\ last_update_time' =
           update_time(last_update_time, parse_websocket_message(data), PollTime)
    /\ funding_last' = FundingStep("process_websocket_messages",
                                   parse_websocket_message(data))
    /\ UNCHANGED <<tracker_vars, throttler_vars, trade_vars, loop_errors, executor,
                   funding_interval_hours, fetch_fundingrate_task, polls_left,
                   funding_task_vars>>

\* `finally: await self._on_interruption(ws)` up to its first suspension: with a ws
\* it awaits the disconnect, without one it clears the rates at once
on_interruption(goes_on) ==
    IF listen_for_subscriptions_task.ws
    THEN /\ listen_for_subscriptions_task' = Listening("disconnect", TRUE, goes_on)
         /\ UNCHANGED <<funding_rates, frame_raw>>
    ELSE /\ listen_for_subscriptions_task' =
                Listening(IF goes_on THEN "connect" ELSE "ended", FALSE, FALSE)
         /\ funding_rates' = <<>>
         /\ frame_raw' = <<>>

\* an await of the try block raises ConnectionError (the peer closed), another
\* Exception, or CancelledError (the task was cancelled)
listen_raises(exception) ==
    /\ listen_for_subscriptions_task.pc \in {"connect", "listen"}
    /\ IF exception = "Exception"
       THEN /\ listen_for_subscriptions_task' =
                   [listen_for_subscriptions_task EXCEPT !.pc = "sleep"]
            /\ UNCHANGED <<funding_rates, frame_raw>>
       ELSE on_interruption(exception = "ConnectionError")
    /\ funding_last' = FundingStep(exception, <<>>)
    /\ UNCHANGED <<tracker_vars, throttler_vars, trade_vars, loop_errors, executor,
                   funding_interval_hours, fetch_fundingrate_task, polls_left,
                   last_update_time, fetch_loops, fetch_fundingrate_task_id,
                   listen_fundingrate_task>>

\* the sleep of `except Exception` ends, or the task is cancelled in it
listen_sleep_ends(cancelled) ==
    /\ listen_for_subscriptions_task.pc = "sleep"
    /\ on_interruption(~cancelled)
    /\ funding_last' = FundingStep(IF cancelled THEN "CancelledError" ELSE "slept", <<>>)
    /\ UNCHANGED <<tracker_vars, throttler_vars, trade_vars, loop_errors, executor,
                   funding_interval_hours, fetch_fundingrate_task, polls_left,
                   last_update_time, fetch_loops, fetch_fundingrate_task_id,
                   listen_fundingrate_task>>

\* ws.disconnect() returns: _on_interruption clears the rates, and the loop goes on
\* unless a CancelledError is on its way out
disconnect_returns ==
    /\ listen_for_subscriptions_task.pc = "disconnect"
    /\ funding_rates' = <<>>
    /\ frame_raw' = <<>>
    /\ listen_for_subscriptions_task' =
           Listening(IF listen_for_subscriptions_task.goes_on THEN "connect" ELSE "ended",
                     TRUE, FALSE)
    /\ funding_last' = FundingStep("on_interruption", <<>>)
    /\ UNCHANGED <<tracker_vars, throttler_vars, trade_vars, loop_errors, executor,
                   funding_interval_hours, fetch_fundingrate_task, polls_left,
                   last_update_time, fetch_loops, fetch_fundingrate_task_id,
                   listen_fundingrate_task>>

\* the task is cancelled while _on_interruption awaits ws.disconnect(): the
\* CancelledError leaves _on_interruption before the rates are cleared
disconnect_cancelled ==
    /\ listen_for_subscriptions_task.pc = "disconnect"
    /\ listen_for_subscriptions_task.goes_on
    /\ listen_for_subscriptions_task' = Listening("ended", TRUE, FALSE)
    /\ funding_last' = FundingStep("CancelledError", <<>>)
    /\ UNCHANGED <<tracker_vars, throttler_vars, trade_vars, loop_errors, executor, funding_rates,
                   funding_interval_hours, fetch_fundingrate_task, polls_left, frame_raw,
                   last_update_time, fetch_loops, fetch_fundingrate_task_id,
                   listen_fundingrate_task>>

(* The feed with a task of listen_for_subscriptions beside the REST loop. *)
NextListen ==
    \/ start_network
    \/ \E data \in FundingInfoResponses : fetch_funding_info(data)
    \/ \E data \in PremiumIndexResponses : fetch_fundingrates(data)
    \/ fetch_fundingrates_loop
    \/ listen_for_subscriptions
    \/ connected_websocket_assistant
    \/ \E data \in MarkPriceFrames : process_websocket_messages(data)
    \/ \E exception \in {"ConnectionError", "Exception", "CancelledError"} :
           listen_raises(exception)
    \/ \E cancelled \in BOOLEAN : listen_sleep_ends(cancelled)
    \/ disconnect_returns
    \/ disconnect_cancelled

SpecListen == InitFunding /\ [][NextListen]_vars

(* The specification of the trade loops. *)
\* the books as initialization leaves them: traded or priced just now, or long ago
\* the tracker after start() and a completed _init_order_books for the pairs A and
\* B, each book built from the REST snapshot 0
TrackerReady ==
    /\ order_books_initialized = TRUE
    /\ tracking_tasks = Pairs
    /\ order_books = [p \in Pairs |-> NewOrderBook(0)]
    /\ tracking_message_queues = [p \in Pairs |-> <<>>]
    /\ past_diffs_windows = [p \in Pairs |-> <<>>]
    /\ saved_message_queues = [p \in Pairs |-> <<>>]
    /\ order_book_diff_stream = <<>>
    /\ order_book_snapshot_stream = <<>>
    /\ init_order_books_task = [pc |-> "done", index |-> 2]
    /\ order_book_diff_listener_task = TRUE
    /\ order_book_snapshot_listener_task = TRUE
    /\ order_book_diff_router_task = TRUE
    /\ order_book_snapshot_router_task = TRUE
    /\ aux_tasks = [emit_trade_event_task |-> TRUE,
                    order_book_trade_listener_task |-> TRUE,
                    order_book_stream_listener_task |-> TRUE,
                    update_last_trade_prices_task |-> TRUE]
    /\ run = 1
    /\ live_tasks = (Spawned(1) \ {Task("init_order_books", "-", 1)})
                        \cup {Task("track_single_book", p, 1) : p \in Pairs}
    /\ born = [p \in Pairs |-> 1]
    /\ nready = 1
    /\ last = Step("init_done", "-", NoMessage, "-")
    /\ loop_errors = [l \in Loops |-> "-"]
    /\ applied_uid = [p \in Pairs |-> -1]
    /\ snapshot_floor = [p \in Pairs |-> -1]
    /\ snapshot_last = [p \in Pairs |-> -1]
    /\ window_stale = [p \in Pairs |-> <<>>]
    /\ trading_pairs = <<"A", "B">>
    /\ feed_pairs = Pairs
    /\ rest_uids = {0}
    /\ starts_left = 0

InitTrades ==
    /\ ExecutorIdle
    /\ TrackerReady
    /\ FundingIdle
    /\ ThrottlerInit
    /\ calls_left = 0
    /\ msgs_left = MaxTrades
    /\ order_book_trade_stream = <<>>
    /\ trade_last = NoTrade
    /\ mono_now = 0
    /\ last_applied_trade \in [Pairs -> {0 - OutdatedTradeAge - 1, 0}]
    /\ last_trade_price = [p \in Pairs |-> 0]
    /\ last_trade_price_rest_updated \in [Pairs -> {0 - TradeRestRefreshMin - 1, 0}]
    /\ update_last_trade_prices_task = Waiting(0)
    /\ prices_last = NoCall

NextTrades ==
    \/ update_last_trade_prices_wake
    \/ \E returned \in SUBSET Pairs : update_last_trade_prices_return(returned, 1)
    \/ update_last_trade_prices_raise
    \/ \E p \in Pairs, trade \in Trades : TradeArrives(p, trade)
    \/ emit_trade_event
    \/ TickMono

SpecTrades == InitTrades /\ [][NextTrades]_vars

(***************************************************************************)
(* The exception handlers of the loops.  Each of the four message loops    *)
(* has `except asyncio.CancelledError: raise` and `except Exception: log,  *)
(* await asyncio.sleep(5.0)` around one iteration; the last-trade-price    *)
(* loop has the same handlers with a sleep of 30 s                         *)
(* (update_last_trade_prices_raise).  The message was taken from its queue *)
(* before the exception, so it is not handled again.  The cancellation of  *)
(* a task, asleep or not, is stop()'s.                                     *)
(***************************************************************************)
\* the task of a loop in the current run
LoopTask(loop) ==
    IF loop \in Pairs THEN Task("track_single_book", loop, run) ELSE Task(loop, "-", run)

Sleeps(loop) == [loop_errors EXCEPT ![loop] = "sleeping"]

order_book_diff_router_raises ==
    /\ order_book_diff_router_task
    /\ Awake("order_book_diff_router")
    /\ order_book_diff_stream # <<>>
    /\ order_book_diff_stream' = Tail(order_book_diff_stream)
    /\ loop_errors' = Sleeps("order_book_diff_router")
    /\ UNCHANGED executor
    /\ last' = Step("raised", Head(order_book_diff_stream).trading_pair,
                    Head(order_book_diff_stream), "order_book_diff_router")
    /\ UNCHANGED <<throttler_vars, trade_vars, funding_vars, env_vars, book_vars, queue_vars,
                   task_vars, run_vars, budget_vars, ghost_vars, order_book_snapshot_stream,
                   order_books_initialized, tracking_tasks, init_order_books_task, nready>>

order_book_snapshot_router_raises ==
    /\ order_book_snapshot_router_task
    /\ Awake("order_book_snapshot_router")
    /\ order_books_initialized
    /\ order_book_snapshot_stream # <<>>
    /\ order_book_snapshot_stream' = Tail(order_book_snapshot_stream)
    /\ loop_errors' = Sleeps("order_book_snapshot_router")
    /\ UNCHANGED executor
    /\ last' = Step("raised", Head(order_book_snapshot_stream).trading_pair,
                    Head(order_book_snapshot_stream), "order_book_snapshot_router")
    /\ UNCHANGED <<throttler_vars, trade_vars, funding_vars, env_vars, book_vars, queue_vars,
                   task_vars, run_vars, budget_vars, ghost_vars, order_book_diff_stream,
                   order_books_initialized, tracking_tasks, init_order_books_task, nready>>

\* the worker's handler letting the exception out of the loop
track_single_book_raises_and_ends(trading_pair) ==
    /\ trading_pair \in tracking_tasks
    /\ Awake(trading_pair)
    /\ LET source == TrackSource(trading_pair) IN
        /\ source = "inbox" => tracking_message_queues[trading_pair] # <<>>
        /\ saved_message_queues' =
              IF source = "saved"
              THEN [saved_message_queues EXCEPT ![trading_pair] = Tail(@)]
              ELSE saved_message_queues
        /\ tracking_message_queues' =
              IF source = "inbox"
              THEN [tracking_message_queues EXCEPT ![trading_pair] = Tail(@)]
              ELSE tracking_message_queues
        /\ last' = Step("raised", trading_pair,
                        IF source = "saved" THEN Head(saved_message_queues[trading_pair])
                                            ELSE Head(tracking_message_queues[trading_pair]),
                        "track_single_book")
    /\ live_tasks' = live_tasks \ {LoopTask(trading_pair)}
    /\ UNCHANGED <<other_vars, env_vars, book_vars, stream_vars, task_vars,
                   aux_tasks, run, born, budget_vars, ghost_vars, order_books_initialized,
                   tracking_tasks, init_order_books_task, nready>>

\* apply_diffs or restore_from_snapshot_and_diffs raises: the book and the window
\* are as they were
track_single_book_raises(trading_pair) ==
    /\ trading_pair \in tracking_tasks
    /\ Awake(trading_pair)
    /\ LET source == TrackSource(trading_pair) IN
        /\ source = "inbox" => tracking_message_queues[trading_pair] # <<>>
        /\ saved_message_queues' =
              IF source = "saved"
              THEN [saved_message_queues EXCEPT ![trading_pair] = Tail(@)]
              ELSE saved_message_queues
        /\ tracking_message_queues' =
              IF source = "inbox"
              THEN [tracking_message_queues EXCEPT ![trading_pair] = Tail(@)]
              ELSE tracking_message_queues
        /\ last' = Step("raised", trading_pair,
                        IF source = "saved" THEN Head(saved_message_queues[trading_pair])
                                            ELSE Head(tracking_message_queues[trading_pair]),
                        "track_single_book")
    /\ loop_errors' = Sleeps(trading_pair)
    /\ UNCHANGED executor
    /\ UNCHANGED <<throttler_vars, trade_vars, funding_vars, env_vars, book_vars, stream_vars,
                   task_vars, run_vars, budget_vars, ghost_vars, order_books_initialized,
                   tracking_tasks, init_order_books_task, nready>>

emit_trade_event_raises ==
    /\ LoopRuns("emit_trade_event")
    /\ Awake("emit_trade_event")
    /\ order_book_trade_stream # <<>>
    /\ order_book_trade_stream' = Tail(order_book_trade_stream)
    /\ trade_last' = TradeStep("raised", Head(order_book_trade_stream))
    /\ loop_errors' = Sleeps("emit_trade_event")
    /\ UNCHANGED executor
    /\ UNCHANGED <<tracker_vars, throttler_vars, funding_vars, mono_now, last_applied_trade,
                   last_trade_price, last_trade_price_rest_updated,
                   update_last_trade_prices_task, prices_last>>

\* the sleep of a loop's exception handler is over: the loop is at `while True` again
error_sleep_ends(loop) ==
    /\ loop_errors[loop] = "sleeping"
    /\ LoopTask(loop) \in live_tasks
    /\ loop_errors' = [loop_errors EXCEPT ![loop] = "resumed"]
    /\ UNCHANGED executor
    /\ UNCHANGED <<tracker_vars, throttler_vars, trade_vars, funding_vars>>


(* The trade loop and the last-trade-price loop in one run of the tracker, from *)
(* start() on: no stop() and no failing REST snapshot.                          *)
InitTradeLoop ==
    /\ ExecutorIdle
    /\ TrackerInit
    /\ TradesIdle
    /\ FundingIdle
    /\ ThrottlerInit
    /\ calls_left = 0
    /\ trading_pairs \in {<<"A">>, <<"A", "B">>}
    /\ feed_pairs = Pairs
    /\ rest_uids = {0}
    /\ msgs_left = MaxTrades + 1
    /\ starts_left = 1

NextTradeLoop ==
    \/ start
    \/ \E u \in Uids : InitOrderBook(u)
    \/ InitAfterSleep
    \/ \E p \in Pairs, trade \in Trades : TradeArrives(p, trade)
    \/ emit_trade_event
    \/ update_last_trade_prices_wake
    \/ \E returned \in SUBSET Pairs : update_last_trade_prices_return(returned, 1)
    \/ update_last_trade_prices_raise
    \/ TickMono

SpecTradeLoop == InitTradeLoop /\ [][NextTradeLoop]_vars

(***************************************************************************)
(* The tracker's specifications.  Spec: one or two configured pairs, the   *)
(* feed sends messages for both pairs, start() at most MaxStarts times.    *)
(* SpecBook: one pair, one uninterrupted run from start(), more messages.  *)
(* SpecOverflow: as SpecBook, with messages enough to overflow the window. *)
(***************************************************************************)
Init ==
    /\ ExecutorIdle
    /\ TrackerInit
    /\ TradesIdle
    /\ FundingIdle
    /\ ThrottlerInit
    /\ calls_left = 0
    /\ trading_pairs \in {<<"A">>, <<"A", "B">>}
    /\ feed_pairs = Pairs
    /\ rest_uids = {0, 1}
    /\ msgs_left = MaxMsgs
    /\ starts_left = MaxStarts

BookInit ==
    /\ ExecutorIdle
    /\ TrackerInit
    /\ TradesIdle
    /\ FundingIdle
    /\ ThrottlerInit
    /\ calls_left = 0
    /\ trading_pairs = <<"A">>
    /\ feed_pairs = {"A"}
    /\ rest_uids = {0}
    /\ msgs_left = MaxBookMsgs
    /\ starts_left = 1

\* as BookInit, with enough messages to push an applied diff out of the past-diffs
\* window before a snapshot and one more diff arrive
OverflowInit ==
    /\ ExecutorIdle
    /\ TrackerInit
    /\ TradesIdle
    /\ FundingIdle
    /\ ThrottlerInit
    /\ calls_left = 0
    /\ trading_pairs = <<"A">>
    /\ feed_pairs = {"A"}
    /\ rest_uids = {0}
    /\ msgs_left = PAST_DIFF_WINDOW_SIZE + 3
    /\ starts_left = 1

Next ==
    \/ start
    \/ stop
    \/ \E u \in Uids : InitOrderBook(u)
    \/ InitOrderBookFails
    \/ InitAfterSleep
    \/ \E p \in Pairs, u \in Uids : DiffArrives(p, u)
    \/ \E p \in Pairs, u \in Uids : SnapshotArrives(p, u)
    \/ order_book_diff_router
    \/ order_book_snapshot_router
    \/ \E p \in Pairs : track_single_book(p)

\* one run of the tracker from start(): no stop() and no failing REST call
NextBook ==
    \/ start
    \/ \E u \in Uids : InitOrderBook(u)
    \/ InitAfterSleep
    \/ \E p \in Pairs, u \in Uids : DiffArrives(p, u)
    \/ \E p \in Pairs, u \in Uids : SnapshotArrives(p, u)
    \/ order_book_diff_router
    \/ order_book_snapshot_router
    \/ \E p \in Pairs : track_single_book(p)

Spec == Init /\ [][Next]_vars

SpecBook == BookInit /\ [][NextBook]_vars

SpecOverflow == OverflowInit /\ [][NextBook]_vars

(* The loops with their exception handlers in one run of the tracker: one pair, *)
(* start() once, stop() at any time, the feed sends MaxLoopMsgs messages (diffs  *)
(* with id 1, snapshots with id 2), the REST call returns every pair it names.   *)
InitLoops ==
    /\ ExecutorIdle
    /\ TrackerInit
    /\ TradesIdle
    /\ FundingIdle
    /\ ThrottlerInit
    /\ calls_left = 0
    /\ trading_pairs = <<"A">>
    /\ feed_pairs = {"A"}
    /\ rest_uids = {0}
    /\ msgs_left = MaxLoopMsgs
    /\ starts_left = 1

NextLoops ==
    \/ start
    \/ stop
    \/ \E u \in Uids : InitOrderBook(u)
    \/ InitAfterSleep
    \/ \E p \in Pairs : DiffArrives(p, 1)
    \/ \E p \in Pairs : SnapshotArrives(p, 2)
    \/ \E p \in feed_pairs, trade \in Trades : TradeArrives(p, trade)
    \/ order_book_diff_router
    \/ order_book_snapshot_router
    \/ \E p \in Pairs : track_single_book(p)
    \/ emit_trade_event
    \/ update_last_trade_prices_wake
    \/ \E returned \in {Pairs} : update_last_trade_prices_return(returned, 1)
    \/ update_last_trade_prices_raise
    \/ TickMono
    \/ order_book_diff_router_raises
    \/ order_book_snapshot_router_raises
    \/ \E p \in Pairs : track_single_book_raises(p)
    \/ emit_trade_event_raises
    \/ \E loop \in Loops : error_sleep_ends(loop)

SpecLoops == InitLoops /\ [][NextLoops]_vars

(* Initialization that may fail, with the loops that wait for the event: two    *)
(* pairs, start() and stop() at any time, MaxLoopMsgs snapshots and trades.     *)
InitFailing ==
    /\ ExecutorIdle
    /\ TrackerInit
    /\ TradesIdle
    /\ FundingIdle
    /\ ThrottlerInit
    /\ calls_left = 0
    /\ trading_pairs = <<"A", "B">>
    /\ feed_pairs = {"B"}
    /\ rest_uids = {0}
    /\ msgs_left = MaxLoopMsgs
    /\ starts_left = MaxStarts

NextFailing ==
    \/ start
    \/ stop
    \/ \E u \in Uids : InitOrderBook(u)
    \/ InitOrderBookFails
    \/ InitAfterSleep
    \/ \E p \in Pairs : SnapshotArrives(p, 2)
    \/ \E p \in feed_pairs : TradeArrives(p, [price |-> 2, trade_id |-> 2])
    \/ order_book_snapshot_router
    \/ \E p \in Pairs : track_single_book(p)
    \/ emit_trade_event
    \/ update_last_trade_prices_wake
    \/ \E returned \in {Pairs} : update_last_trade_prices_return(returned, 1)
    \/ update_last_trade_prices_raise
    \/ TickMono

SpecFailing == InitFailing /\ [][NextFailing]_vars

(* The order of the diffs: two pairs, start() up to MaxStarts times, the feed    *)
(* sends MaxOrderedDiffs diffs with increasing update ids.                      *)
InitOrdered ==
    /\ ExecutorIdle
    /\ TrackerInit
    /\ TradesIdle
    /\ FundingIdle
    /\ ThrottlerInit
    /\ calls_left = 0
    /\ trading_pairs = <<"A", "B">>
    /\ feed_pairs = Pairs
    /\ rest_uids = {0}
    /\ msgs_left = MaxOrderedDiffs
    /\ starts_left = MaxStarts

NextOrdered ==
    \/ start
    \/ \E u \in Uids : InitOrderBook(u)
    \/ InitAfterSleep
    \/ \E p \in Pairs : DiffArrivesInOrder(p)
    \/ order_book_diff_router
    \/ \E p \in Pairs : track_single_book(p)

SpecOrdered == InitOrdered /\ [][NextOrdered]_vars

(***************************************************************************)
(* A position executor alone: started with a configuration of Configs,     *)
(* ticked by its control loop and fed the events of its orders.            *)
(***************************************************************************)
InitExecutor ==
    /\ TrackerInit
    /\ TradesIdle
    /\ FundingIdle
    /\ ThrottlerInit
    /\ calls_left = 0
    /\ trading_pairs = <<"A">>
    /\ feed_pairs = {}
    /\ rest_uids = {0}
    /\ msgs_left = 0
    /\ starts_left = 0
    /\ executor \in {PositionExecutor(config, "RUNNING") : config \in Configs}

NextExecutor ==
    \/ control_task
    \/ control_task_after_sleep
    \/ \E keep_position \in BOOLEAN : early_stop(keep_position)
    \/ \E slot \in OrderSlots :
          \/ process_order_created_event(slot)
          \/ process_order_completed_event(slot)
          \/ process_order_canceled_event(slot)
          \/ process_order_failed_event(slot)
          \/ in_flight_order_canceled(slot)
    \/ time_limit_passes

SpecExecutor == InitExecutor /\ [][NextExecutor]_vars

(***************************************************************************)
(* The throttler's specification: three callers share the task logs.       *)
(***************************************************************************)
InitThrottler ==
    /\ ExecutorIdle
    /\ ThrottlerInit
    /\ calls_left = MaxCalls
    /\ TrackerInit
    /\ TradesIdle
    /\ FundingIdle
    /\ trading_pairs = <<"A">>
    /\ feed_pairs = {}
    /\ rest_uids = {}
    /\ msgs_left = 0
    /\ starts_left = 0

NextThrottler ==
    \/ \E c \in Callers, l \in LimitIds : execute_task(c, l)
    \/ \E c \in Callers : acquire(c)
    \/ \E c \in Callers : acquire_retry(c)
    \/ \E c \in Callers : aexit(c)
    \/ \E c \in Callers : cancel_acquire(c)
    \/ Tick

SpecThrottler == InitThrottler /\ [][NextThrottler]_vars

(***************************************************************************)
(* The throttler with a clock that never stops.  acquire() and flush() use *)
(* times only through differences now - timestamp, and a task log older    *)
(* than every threshold is treated alike whatever its age: a second that   *)
(* passes is modelled by moving every recorded time one second into the    *)
(* past, down to the greatest age that matters, with the clock reading     *)
(* kept.  The event loop runs every ready coroutine, hence the weak        *)
(* fairness of the passes of acquire() and of the end of its sleeps.       *)
(***************************************************************************)
\* an age at which a task log of any limit is past its interval and its flush threshold
OldestAge ==
    LET Threshold(l) == (RateLimits[l].time_interval * (100 + SafetyMarginPct)) \div 100
    IN 1 + Max({Threshold(l) : l \in LimitIds})

\* a second passes
TickOn ==
    /\ task_logs' = [i \in DOMAIN task_logs |->
                        [task_logs[i] EXCEPT !.timestamp = Max({@ - 1, time_now - OldestAge})]]
    /\ acquire_pc' = [c \in Callers |->
                        IF acquire_pc[c].pc = "sleep" /\ acquire_pc[c].until > time_now
                        THEN [acquire_pc[c] EXCEPT !.until = @ - 1]
                        ELSE acquire_pc[c]]
    /\ UNCHANGED <<non_throttler_vars, time_now, acquire_limit, calls_left, completed>>

InitThrottlerFair ==
    /\ ExecutorIdle
    /\ task_logs = <<>>
    /\ time_now = MaxTime
    /\ acquire_pc = [c \in Callers |-> [pc |-> "idle", until |-> 0]]
    /\ acquire_limit = [c \in Callers |-> "-"]
    /\ completed = [l \in LimitIds |-> [t \in 0 .. MaxTime |-> 0]]
    /\ calls_left = MaxCalls - 1
    /\ TrackerInit
    /\ TradesIdle
    /\ FundingIdle
    /\ trading_pairs = <<"A">>
    /\ feed_pairs = {}
    /\ rest_uids = {}
    /\ msgs_left = 0
    /\ starts_left = 0

\* no caller is cancelled
NextThrottlerFair ==
    \/ \E c \in Callers, l \in LimitIds : execute_task(c, l)
    \/ \E c \in Callers : acquire(c)
    \/ \E c \in Callers : acquire_retry(c)
    \/ \E c \in Callers : aexit(c)
    \/ TickOn

SpecThrottlerFair ==
    /\ InitThrottlerFair
    /\ [][NextThrottlerFair]_vars
    /\ WF_vars(TickOn)
    /\ \A c \in Callers : WF_vars(acquire(c) \/ acquire_retry(c))

(***************************************************************************)
(* Properties of the tracker.                                              *)
(***************************************************************************)
WorkerAppliedDiff == last.op = "track_diff" /\ last.changed

\* C1: per pair, the update ids of the diffs the worker applies to the pair's book
\* through apply_diffs form a strictly increasing sequence.
C1_AppliedDiffIdsIncrease ==
    WorkerAppliedDiff => last.msg.update_id > last.prev_applied

C4_ReadyOnceAndComplete ==
    /\ nready <= 1
    /\ last.op = "init_done" =>
          \A i \in 1 .. Len(trading_pairs) :
              /\ trading_pairs[i] \in DOMAIN order_books
              /\ trading_pairs[i] \in DOMAIN tracking_message_queues
              /\ trading_pairs[i] \in tracking_tasks

C4_ReadyAfterRestart ==
    /\ last.op = "init_done"
    /\ order_books_initialized
    /\ Len(trading_pairs) = 2
    /\ starts_left = 0

\* the diffs of a window with an id above U
ReplayedDiffs(U, window) == {m \in Range(window) : m.update_id > U}

\* the size at price pr after the snapshot and the window's diffs above its id, the
\* diff with the larger id overwriting
ExpectedLevel(snapshot, window, pr) ==
    LET touching == {m \in ReplayedDiffs(snapshot.update_id, window) : pr \in DOMAIN m.levels}
    IN IF touching = {} THEN snapshot.levels[pr]
       ELSE (CHOOSE m \in touching : \A o \in touching : o.update_id <= m.update_id).levels[pr]

\* C5: after the worker processed a snapshot with id U the book holds the
\* snapshot's levels overwritten, price by price, by the diff of the past-diffs
\* window with the largest id above U that carries the price; snapshot_uid is U and
\* last_diff_uid is the largest window id above U, or U.
C5_RestoreReplaysWindow ==
    last.op = "track_snapshot" =>
        LET book == order_books[last.pair]
            window == past_diffs_windows[last.pair]
            U == last.msg.update_id
        IN /\ book.snapshot_uid = U
           /\ book.last_diff_uid =
                 Max({U} \cup {m.update_id : m \in ReplayedDiffs(U, window)})
           /\ \A pr \in Prices : book.levels[pr] = ExpectedLevel(last.msg, window, pr)

C5_SnapshotBetweenDiffs ==
    /\ last.op = "track_snapshot"
    /\ \E i, j \in 1 .. Len(past_diffs_windows[last.pair]) :
          /\ past_diffs_windows[last.pair][i].update_id <= last.msg.update_id
          /\ past_diffs_windows[last.pair][j].update_id > last.msg.update_id
          /\ order_books[last.pair].last_diff_uid = past_diffs_windows[last.pair][j].update_id

\* C6: a diff popped for a pair that has no inbox yet goes to the pair's saved
\* queue, and the worker takes the saved diffs, oldest first, before it takes
\* anything from the pair's inbox.
C6_SavedDiffsFirst ==
    [][/\ (last'.op = "diff_router"
             /\ last'.pair \notin DOMAIN tracking_message_queues) =>
          /\ saved_message_queues'[last'.pair] =
                DequeAppend(saved_message_queues[last'.pair], last'.msg, SAVED_QUEUE_MAXLEN)
          /\ last'.msg = Head(order_book_diff_stream)
       /\ (last'.op \in {"track_diff", "track_snapshot"}
             /\ saved_message_queues[last'.pair] # <<>>) =>
          /\ last'.msg = Head(saved_message_queues[last'.pair])
          /\ saved_message_queues'[last'.pair] = Tail(saved_message_queues[last'.pair])
          /\ tracking_message_queues' = tracking_message_queues
      ]_vars

C6_SavedTakenWhileInboxWaits ==
    /\ last.op = "track_diff"
    /\ last.how = "saved"
    /\ tracking_message_queues[last.pair] # <<>>

\* C7: a diff popped for a pair that has an inbox and whose book has snapshot_uid >
\* update_id enters no inbox and no saved queue and leaves every book and window
\* as it is.
C7_StaleDiffRejected ==
    [][(/\ last'.op = "diff_router"
        /\ last'.pair \in DOMAIN tracking_message_queues
        /\ order_books[last'.pair].snapshot_uid > last'.msg.update_id) =>
          /\ last'.msg = Head(order_book_diff_stream)
          /\ UNCHANGED <<queue_vars, book_vars>>
      ]_vars

C7_RouterSawStaleDiff ==
    /\ last.op = "diff_router"
    /\ last.pair \in DOMAIN tracking_message_queues
    /\ order_books[last.pair].snapshot_uid > last.msg.update_id

C9_OldSnapshotResets ==
    last.gap =>
        /\ past_diffs_windows[last.pair] = <<>>
        /\ last.pair \notin DOMAIN order_books

\* C10: a diff with update_id <= last_diff_uid leaves the book's levels,
\* snapshot_uid and last_diff_uid as they are.
C10_StaleDiffLeavesBook ==
    [][(last'.op = "track_diff" /\ last'.stale) =>
          order_books'[last'.pair] = order_books[last'.pair]]_vars

C10_WorkerSawStaleDiff ==
    /\ last.op = "track_diff"
    /\ last.stale
    /\ last.msg.levels[1 + (last.msg.update_id % 2)]
          # order_books[last.pair].levels[1 + (last.msg.update_id % 2)]

(***************************************************************************)
(* Properties of the throttler.                                            *)
(***************************************************************************)
\* the weight the completed acquires logged against limit_id with timestamps in
\* from .. to
RECURSIVE WindowWeight(_, _, _)
WindowWeight(limit_id, from, to) ==
    IF from > to \/ from > MaxTime THEN 0
    ELSE (IF from < 0 THEN 0 ELSE completed[limit_id][from])
         + WindowWeight(limit_id, from + 1, to)

\* C3: for every limit id and every window of the length of its interval, the
\* weight logged against the id by the acquires completing inside the window is at
\* most the id's limit.
C3_RollingWindowWithinLimit ==
    \A l \in LimitIds, t \in 0 .. MaxTime :
        WindowWeight(l, t, t + RateLimits[l].time_interval) <= RateLimits[l].limit

C3_CallerWaitsOnFullWindow ==
    \E c \in Callers :
        /\ acquire_pc[c].pc = "sleep"
        /\ acquire_limit[c] = "ORDERS"
        /\ WindowWeight("ORDERS", time_now - RateLimits["ORDERS"].time_interval, time_now)
              = RateLimits["ORDERS"].limit
        /\ completed["ORDERS"][time_now] > 0
        /\ \E t \in 0 .. MaxTime :
              /\ t < time_now - RateLimits["ORDERS"].time_interval
              /\ completed["ORDERS"][t] > 0

(***************************************************************************)
(* Further properties of the tracker.                                      *)
(***************************************************************************)
\* C11: when the worker of a pair processes a snapshot and, as its next message,
\* the same snapshot again, the second pass leaves the pair's book (levels,
\* snapshot_uid, last_diff_uid) as the first pass left it.  Only the worker writes
\* the pair's book and window, so the two passes are taken as successive steps.
C11_SnapshotTwiceSameBook ==
    [][(/\ last.op = "track_snapshot"
        /\ last'.op = "track_snapshot"
        /\ last'.pair = last.pair
        /\ last'.msg = last.msg) =>
          order_books'[last.pair] = order_books[last.pair]]_vars

C11_SameSnapshotAgain ==
    /\ last.op = "track_snapshot"
    /\ last.prev_snapshot = last.msg.update_id
    /\ last.prev_applied = -1
    /\ past_diffs_windows[last.pair] = <<>>
    /\ ~last.changed

\* C12: once a start() that is not the first has completed its initialization,
\* the tracker is ready, every configured pair has a book, an inbox and exactly one
\* live worker, that worker was spawned with the book and inbox the pair has now,
\* and every live task was spawned by this start().
C12_RestartConsistent ==
    (order_books_initialized /\ run >= 2) =>
        /\ \A i \in 1 .. Len(trading_pairs) :
              LET p == trading_pairs[i]
                  workers == {t \in live_tasks : t.name = "track_single_book" /\ t.pair = p}
              IN /\ p \in DOMAIN order_books
                 /\ p \in DOMAIN tracking_message_queues
                 /\ p \in tracking_tasks
                 /\ Cardinality(workers) = 1
                 /\ \A t \in workers : t.run = born[p]
        /\ \A t \in live_tasks : t.run = run

C12_SecondInitDone ==
    /\ last.op = "init_done"
    /\ run = 2
    /\ order_books_initialized
    /\ Len(trading_pairs) = 2
    /\ \A p \in Pairs : born[p] = 2

\* C13: a stop() leaves no task it cancels live, neither one spawned by start()
\* nor a worker, leaves _tracking_tasks empty and the tracker not ready; a stop()
\* that follows a stop(), or that comes before any start(), changes nothing of the
\* tracker's books, queues, streams, task handles and tasks.
C13_StopCancelsAndRepeats ==
    [][last'.op = "stop" =>
         /\ live_tasks' = {}
         /\ tracking_tasks' = {}
         /\ ~order_books_initialized'
         /\ (last.op = "stop" \/ run = 0) =>
                UNCHANGED <<env_vars, book_vars, queue_vars, stream_vars, task_vars,
                            run_vars, tracking_tasks, init_order_books_task,
                            order_books_initialized>>]_vars

C13_StoppedAfterInit ==
    /\ last.op = "stop"
    /\ run = 1
    /\ \A p \in Pairs : born[p] = 1
    /\ nready = 1

\* C19: the diff router pops the head of the diff stream and, whether or not the
\* initialization has completed, does exactly one of three things with it: the
\* pair has no inbox and the diff is appended to the pair's saved queue; or the
\* book's snapshot_uid is greater than the diff's update_id and the diff enters no
\* queue; or the diff is put into the pair's inbox, as it is when its update_id
\* equals snapshot_uid.  No book and no window changes.
C19_DiffRoutedOneOfThreeWays ==
    [][last'.op = "diff_router" =>
         LET m == Head(order_book_diff_stream)
             p == m.trading_pair
         IN /\ last'.msg = m
            /\ order_book_diff_stream' = Tail(order_book_diff_stream)
            /\ UNCHANGED book_vars
            /\ IF p \notin DOMAIN tracking_message_queues
               THEN /\ last'.how = "queued"
                    /\ saved_message_queues' =
                          [saved_message_queues EXCEPT ![p] =
                              DequeAppend(@, m, SAVED_QUEUE_MAXLEN)]
                    /\ UNCHANGED tracking_message_queues
               ELSE IF order_books[p].snapshot_uid > m.update_id
               THEN /\ last'.how = "rejected"
                    /\ UNCHANGED queue_vars
               ELSE /\ last'.how = "accepted"
                    /\ tracking_message_queues' =
                          [tracking_message_queues EXCEPT ![p] = Append(@, m)]
                    /\ UNCHANGED saved_message_queues]_vars

C19_EqualIdAcceptedBeforeReady ==
    /\ last.op = "diff_router"
    /\ last.how = "accepted"
    /\ ~order_books_initialized
    /\ last.msg.update_id = order_books[last.pair].snapshot_uid
    /\ last.msg \in Range(tracking_message_queues[last.pair])

\* C20: a step puts a snapshot into an inbox only while the event is set; while it
\* is not set the snapshot stream loses no message; and a step of the snapshot
\* router pops the head of the stream and puts it into the inbox of its pair if the
\* pair has one and into no inbox otherwise.
C20_SnapshotsRoutedAfterInit ==
    [][/\ \A p \in DOMAIN tracking_message_queues \cap DOMAIN tracking_message_queues' :
             (/\ Len(tracking_message_queues'[p]) = Len(tracking_message_queues[p]) + 1
              /\ tracking_message_queues'[p][Len(tracking_message_queues'[p])].type
                     = "SNAPSHOT") =>
                 order_books_initialized /\ last'.op = "snapshot_router"
       /\ ~order_books_initialized =>
             /\ Len(order_book_snapshot_stream') >= Len(order_book_snapshot_stream)
             /\ SubSeq(order_book_snapshot_stream', 1, Len(order_book_snapshot_stream))
                    = order_book_snapshot_stream
       /\ last'.op = "snapshot_router" =>
             LET m == Head(order_book_snapshot_stream)
                 p == m.trading_pair
             IN /\ order_books_initialized
                /\ last'.msg = m
                /\ order_book_snapshot_stream' = Tail(order_book_snapshot_stream)
                /\ tracking_message_queues' =
                      IF p \in DOMAIN tracking_message_queues
                      THEN [tracking_message_queues EXCEPT ![p] = Append(@, m)]
                      ELSE tracking_message_queues]_vars

C20_SnapshotRoutedWhenReady ==
    /\ last.op = "snapshot_router"
    /\ last.how = "accepted"
    /\ order_books_initialized
    /\ tracking_message_queues[last.pair] # <<>>
    /\ tracking_message_queues[last.pair][Len(tracking_message_queues[last.pair])] = last.msg

(* Further properties of the throttler. *)
\* every admission so far was an acquire of ORDERS (weight 1, and 1 on the linked ALL)
OnlyOrdersAcquired ==
    \A t \in 0 .. MaxTime : completed["ALL"][t] = completed["ORDERS"][t]

\* C14: with acquires of ORDERS alone (limit 2 per interval I, weight 1), at most
\* two complete at time 0, an acquire is left waiting at time 0 only when two have
\* completed, and once two have completed at time 0 none completes at a later time
\* earlier than I * (1 - safety_margin).
C14_ThirdAcquireWaits ==
    OnlyOrdersAcquired =>
        /\ completed["ORDERS"][0] <= RateLimits["ORDERS"].limit
        /\ \A c \in Callers :
              (time_now = 0 /\ acquire_pc[c].pc = "sleep" /\ acquire_limit[c] = "ORDERS") =>
                  completed["ORDERS"][0] = RateLimits["ORDERS"].limit
        /\ completed["ORDERS"][0] = RateLimits["ORDERS"].limit =>
              \A t \in 1 .. MaxTime :
                  completed["ORDERS"][t] > 0 =>
                      t * 100 >= RateLimits["ORDERS"].time_interval * (100 - SafetyMarginPct)

C14_ThirdAcquireCompletes ==
    /\ OnlyOrdersAcquired
    /\ \A c \in Callers : acquire_pc[c].pc = "acquired" /\ acquire_limit[c] = "ORDERS"
    /\ completed["ORDERS"][0] = 2
    /\ \E t \in 1 .. MaxTime : t = time_now /\ completed["ORDERS"][t] = 1

\* C15: a step of a caller that is waiting in acquire() either admits it, and then
\* the task log gains the caller's own entry and one entry per linked limit, all
\* with the time of the step, or does not admit it, and then the task log gains no
\* entry; a step that cancels the waiting caller leaves the task log as it was.
C15_CancelLeavesNoEntry ==
    [][\A c \in Callers :
         (acquire_pc[c].pc \in {"check", "sleep"} /\ acquire_pc'[c] # acquire_pc[c]) =>
            LET links == RateLimits[acquire_limit[c]].linked_limits
                kept == Len(task_logs') - (1 + Len(links))
            IN IF acquire_pc'[c].pc = "acquired"
               THEN /\ kept >= 0
                    /\ SubSeq(task_logs', 1, kept) = flush(task_logs, time_now)
                    /\ task_logs'[kept + 1] =
                           TaskLog(time_now, acquire_limit[c], RateLimits[acquire_limit[c]].weight)
                    /\ \A i \in 1 .. Len(links) :
                           task_logs'[kept + 1 + i] =
                               TaskLog(time_now, links[i].limit_id, links[i].weight)
               ELSE /\ task_logs' \in {task_logs, flush(task_logs, time_now)}
                    /\ acquire_pc'[c].pc = "idle" => task_logs' = task_logs]_vars

C15_CancelledWhileOthersAdmitted ==
    /\ calls_left = MaxCalls - 3
    /\ \A c \in Callers : acquire_pc[c].pc \in {"idle", "acquired"}
    /\ \E c \in Callers : acquire_pc[c].pc = "idle"
    /\ OnlyOrdersAcquired
    /\ completed["ORDERS"][0] = 2
    /\ time_now = 1
    /\ Len(task_logs) = 4

(* Properties of the last-trade-price loop. *)
\* C16: a pair that has been outdated (last trade older than the trade age, last
\* REST update older than the refresh minimum) for a sleep of the loop is in the
\* arguments of a call the loop has made, and when a call returns, each pair in its
\* arguments has last_trade_price_rest_updated equal to the current time.
C16_OutdatedPairCalledWithinSleep ==
    \A p \in Pairs :
        /\ p \in outdateds(last_applied_trade, last_trade_price_rest_updated,
                            mono_now - LoopSleep) =>
               /\ update_last_trade_prices_task.pc = "call"
               /\ p \in update_last_trade_prices_task.args
        /\ (prices_last.op = "returned" /\ prices_last.at = mono_now
                /\ p \in prices_last.args) =>
               last_trade_price_rest_updated[p] = mono_now

(* Properties of the funding-rate feed. *)
\* C17: for every pair in funding_rates, the cached rate equals the raw rate of the
\* latest frame that contained the pair's symbol, times
\* standardization_duration_hours, divided by the symbol's funding interval.
C17_RateStandardized ==
    \A tp \in DOMAIN funding_rates :
        funding_rates[tp]
              * ExchangeFundingIntervalHours[exchange_symbol_associated_to_pair(tp)]
            = frame_raw[tp] * standardization_duration_hours

(* Properties of the past-diffs window. *)
\* C21: a pair's past-diffs window holds only diffs that were applied to the pair's
\* book since the last snapshot was applied to it: the step of the worker that
\* applies a snapshot leaves the pair's window empty, and the step that handles a
\* diff apply_diffs did not accept leaves the windows as they were.
C21_WindowHoldsAppliedDiffsSinceSnapshot ==
    [][/\ last'.op = "track_snapshot" => past_diffs_windows'[last'.pair] = <<>>
       /\ (last'.op = "track_diff" /\ ~last'.changed) =>
              past_diffs_windows' = past_diffs_windows]_vars

(* Further properties of acquire() and flush(). *)
\* C25: the capacity check that admits a caller and the append of the caller's task
\* logs are one step on the shared task log, so that callers are never admitted on
\* the same free capacity: at every moment, for every limit, the weight of the
\* task logs not older than the limit's interval is at most the limit.
C25_AdmittedWithinCapacity ==
    \A l \in LimitIds : CapacityUsed(task_logs, l, time_now) <= RateLimits[l].limit

C25_LastCapacityTakenAtOnce ==
    \E c1, c2, c3 \in Callers :
        /\ c1 # c2
        /\ acquire_pc[c1].pc = "acquired" /\ acquire_limit[c1] = "ORDERS"
        /\ acquire_pc[c2].pc = "acquired" /\ acquire_limit[c2] = "ORDERS"
        /\ acquire_pc[c3] = [pc |-> "sleep", until |-> time_now + 1]
        /\ acquire_limit[c3] = "ORDERS"
        /\ completed["ORDERS"][time_now] = RateLimits["ORDERS"].limit
        /\ CapacityUsed(task_logs, "ORDERS", time_now) = RateLimits["ORDERS"].limit

\* C26: a pass of acquire() at time t leaves of the task log it found exactly the
\* entries that are not older than interval * (1 + safety_margin_pct) of their own
\* limit, in their order (followed by the entries the pass appends, if it admits).
C26_FlushRemovesExactlyExpired ==
    [][\A c \in Callers :
         (acquire_pc[c].pc = "check" /\ acquire_pc'[c].pc \in {"sleep", "acquired"}) =>
            LET appended == IF acquire_pc'[c].pc = "acquired"
                            THEN Len(ListOfLimits(acquire_limit[c])) ELSE 0
            IN SubSeq(task_logs', 1, Len(task_logs') - appended)
                 = SelectSeq(task_logs, LAMBDA task : ~Expired(task, time_now))]_vars

\* C27: the step that completes a caller's acquire() of limit L at time t makes the
\* task log longer than the flushed log by one entry plus one per linked limit of
\* L; the new entries all have timestamp t, one of them is (L, weight of L) and,
\* for each linked limit, one is (linked limit, linked weight); the step in which
\* a caller leaves the guard leaves the task log as it was.
C27_OneEntryPerLimitAndExitKeepsLog ==
    [][\A c \in Callers :
         /\ (acquire_pc[c].pc = "check" /\ acquire_pc'[c].pc = "acquired") =>
               LET L == acquire_limit[c]
                   links == RateLimits[L].linked_limits
                   from == Len(flush(task_logs, time_now))
                   new == SubSeq(task_logs', from + 1, Len(task_logs'))
                   Count(id, w) == Cardinality({i \in 1 .. Len(new) :
                                       new[i].rate_limit = id /\ new[i].weight = w})
               IN /\ Len(new) = 1 + Len(links)
                  /\ \A i \in 1 .. Len(new) : new[i].timestamp = time_now
                  /\ Count(L, RateLimits[L].weight) = 1
                  /\ \A i \in 1 .. Len(links) : Count(links[i].limit_id, links[i].weight) = 1
                  /\ \A i \in 1 .. Len(new) :
                        \/ new[i].rate_limit = L
                        \/ \E j \in 1 .. Len(links) : new[i].rate_limit = links[j].limit_id
         /\ (acquire_pc[c].pc = "acquired" /\ acquire_pc'[c].pc = "idle") =>
               task_logs' = task_logs]_vars

C27_LeftGuardWithEntriesLogged ==
    /\ \A c \in Callers : acquire_pc[c].pc = "idle"
    /\ calls_left = MaxCalls - 2
    /\ completed["ORDERS"][0] = 1
    /\ completed["ALL"][0] = 3
    /\ Len(task_logs) = 3
    /\ \A i \in 1 .. Len(task_logs) : task_logs[i].timestamp = 0

\* C28: with a clock that keeps advancing and every ready coroutine eventually run,
\* each caller inside acquire() (every limit's weight and linked weights fit its
\* limits; the other callers make finitely many calls) is eventually admitted.
C28_AcquireEventuallyCompletes ==
    \A c \in Callers :
        (acquire_pc[c].pc \in {"check", "sleep"}) ~> (acquire_pc[c].pc = "acquired")

C28_AdmittedAfterWaitingForOthers ==
    \E c \in Callers :
        /\ acquire_pc[c].pc = "acquired"
        /\ acquire_limit[c] = "ALL"
        /\ calls_left = 0
        /\ Len(task_logs) >= 1
        /\ task_logs[Len(task_logs)] = TaskLog(time_now, "ALL", RateLimits["ALL"].weight)
        /\ \E i \in 1 .. Len(task_logs) :
              /\ task_logs[i].rate_limit = "ALL"
              /\ task_logs[i].timestamp = time_now - RateLimits["ALL"].time_interval - 1

(* Further properties of the funding-rate feed. *)
\* C29: _update_all_funding_info(updates) leaves in funding_rates the keys it had
\* and the configured pairs whose exchange symbol is a key of updates, with the
\* update's value for these pairs and the old value for every other key; every key
\* is a configured pair; last_update_time changes exactly when a pair was written.
C29_UpdateWritesConfiguredPairsOnly ==
    [][funding_last'.op = "update_all_funding_info" =>
         LET updates == funding_last'.updates
             written == {tp \in Range(FeedTradingPairs) :
                            exchange_symbol_associated_to_pair(tp) \in DOMAIN updates}
         IN /\ DOMAIN funding_rates' = DOMAIN funding_rates \cup written
            /\ \A tp \in written :
                   funding_rates'[tp] = updates[exchange_symbol_associated_to_pair(tp)]
            /\ \A tp \in DOMAIN funding_rates \ written :
                   funding_rates'[tp] = funding_rates[tp]
            /\ DOMAIN funding_rates' \subseteq Range(FeedTradingPairs)
            /\ (last_update_time' # last_update_time) <=> (written # {})]_vars

C29_UpdateWithForeignSymbolKeepsOther ==
    /\ funding_last.op = "update_all_funding_info"
    /\ DOMAIN funding_last.updates = {"BUSDT", "CUSDT"}
    /\ DOMAIN funding_rates = {"A-USDT", "B-USDT"}
    /\ last_update_time = PollTime
    /\ PollTime > 1

\* C30: at most one fetch_fundingrates_loop task is live; a step of stop_network
\* leaves none live and both task handles None; a stop_network that follows a
\* stop_network leaves the feed (rates, intervals, tasks, handles, update time) as
\* it was.
C30_OneLoopAndStopRepeats ==
    [][/\ Cardinality(fetch_loops') <= 1
       /\ funding_last'.op = "stop_network" =>
              /\ fetch_loops' = {}
              /\ fetch_fundingrate_task' = "none"
              /\ fetch_fundingrate_task_id' = 0
              /\ listen_fundingrate_task' = 0
       /\ (funding_last.op = "stop_network" /\ funding_last'.op = "stop_network") =>
              UNCHANGED <<funding_rates, funding_interval_hours, fetch_fundingrate_task,
                          last_update_time, funding_task_vars>>]_vars

C30_RestartedWithOneLoop ==
    /\ funding_last.op = "start_network"
    /\ fetch_fundingrate_task_id > 1
    /\ fetch_loops = {fetch_fundingrate_task_id}
    /\ DOMAIN funding_rates # {}

(* Further properties of the last-trade-price loop and of the trade loop. *)
\* C24: when a get_last_traded_prices call that names a pair begins, the latest
\* earlier call that named the pair began at least trade_rest_refresh_min_seconds
\* before, whatever that call returned.
C24_CallsOfAPairRefreshMinApart ==
    [][\A p \in Pairs :
         (/\ update_last_trade_prices_task'.pc = "call"
          /\ p \in update_last_trade_prices_task'.args
          /\ prices_last' # prices_last
          /\ prices_last.began[p] # NeverCalled) =>
             prices_last'.began[p] - prices_last.began[p] >= TradeRestRefreshMin]_vars

\* C23: a step that takes a trade from the trade stream happens only while
\* _order_books_initialized is set and takes the head of the stream; if the
\* trade's pair has a book, the step sets that book's last trade price to the
\* trade's price and its last trade time to the time of the step, whatever the
\* trade id, and leaves the other books' trade fields alone; if the pair has no
\* book, the step changes no book and no trade field.
C23_TradesAppliedInOrderAfterInit ==
    [][(/\ order_book_trade_stream # <<>>
        /\ order_book_trade_stream' = Tail(order_book_trade_stream)) =>
          LET trade_message == Head(order_book_trade_stream)
              p == trade_message.trading_pair
          IN /\ order_books_initialized
             /\ trade_last'.msg = trade_message
             /\ UNCHANGED <<order_books, last_trade_price_rest_updated>>
             /\ IF p \in DOMAIN order_books
                THEN /\ trade_last'.op = "applied"
                     /\ last_trade_price' = [last_trade_price EXCEPT ![p] = trade_message.price]
                     /\ last_applied_trade' = [last_applied_trade EXCEPT ![p] = mono_now]
                ELSE /\ trade_last'.op = "rejected"
                     /\ UNCHANGED <<last_trade_price, last_applied_trade>>]_vars

C23_OlderTradeIdApplied ==
    /\ nready = 1
    /\ trade_last.op = "applied"
    /\ trade_last.msg.trade_id = 1
    /\ last_trade_price[trade_last.msg.trading_pair] = trade_last.msg.price
    /\ last_applied_trade[trade_last.msg.trading_pair] = mono_now
    /\ mono_now > 0
    /\ msgs_left < MaxTrades
    /\ order_book_trade_stream = <<>>


(* Further properties of the loops' exception handlers. *)
\* C22: in the diff router, the snapshot router, the worker of a pair, the trade loop
\* and the last-trade-price loop, a step in which handling a message or an iteration
\* raises leaves the loop's task alive and asleep, the end of that sleep leaves it
\* alive and able to handle the next message, and a cancellation (stop()) ends every
\* one of the loops, asleep or not.
C22_RaisingLoopsSleepAndResume ==
    [][/\ (last'.op = "raised" /\ last' # last) =>
              LET loop == IF last'.how = "track_single_book" THEN last'.pair ELSE last'.how
              IN  /\ LoopTask(loop) \in live_tasks'
                  /\ loop_errors'[loop] = "sleeping"
       /\ (trade_last'.op = "raised" /\ trade_last' # trade_last) =>
              /\ LoopTask("emit_trade_event") \in live_tasks'
              /\ loop_errors'["emit_trade_event"] = "sleeping"
       /\ (prices_last'.op = "raised" /\ prices_last' # prices_last) =>
              /\ LoopTask("update_last_trade_prices") \in live_tasks'
              /\ update_last_trade_prices_task' = Waiting(mono_now + ErrorSleep)
       /\ \A loop \in Loops :
              (loop_errors[loop] = "sleeping" /\ loop_errors'[loop] = "resumed") =>
                  LoopTask(loop) \in live_tasks'
       /\ (last'.op = "stop" /\ last' # last) =>
              \A loop \in Loops \cup {"update_last_trade_prices"} :
                  /\ LoopTask(loop) \notin live_tasks'
                  /\ loop \in Loops => loop_errors'[loop] # "sleeping"]_vars

\* C22 witness: the worker of A has raised on a message, slept, and then applied
\* the diff that followed
C22_WorkerAppliedDiffAfterRaise ==
    /\ loop_errors["A"] = "resumed"
    /\ last.op = "track_diff"
    /\ last.pair = "A"
    /\ last.changed
    /\ LoopTask("A") \in live_tasks


(* Properties of the feed's websocket loop. *)
\* C31: whenever an iteration of listen_for_subscriptions ends (the loop is at its
\* top again, or the task has ended), by peer close, by another error or by
\* cancellation, the rates are empty and the feed is not ready; and the feed becomes
\* ready again only by a step that writes fetched rates.
C31_InterruptionEmptiesRates ==
    [][/\ (/\ listen_for_subscriptions_task.pc \in {"connect", "listen", "sleep", "disconnect"}
           /\ listen_for_subscriptions_task'.pc \in {"connect", "ended"}
           /\ listen_for_subscriptions_task' # listen_for_subscriptions_task) =>
              (funding_rates' = <<>> /\ ~ready')
       /\ (~ready /\ ready') =>
              funding_last'.op \in {"update_all_funding_info", "process_websocket_messages"}]_vars


(* Properties of a failing initialization. *)
\* C32: once get_new_order_book has raised in _init_order_books, then for as long as
\* that start() lasts the event is not set, neither the failing pair nor a later pair
\* of trading_pairs has a book, inbox or worker of this run, and the snapshot router,
\* the trade loop and the last-trade-price loop take no step.
C32_FailedInitIsFinal ==
    [][/\ (last'.op = "init_failed" /\ last' # last) =>
              /\ init_order_books_task'.pc = "failed"
              /\ Task("init_order_books", "-", run') \notin live_tasks'
       /\ init_order_books_task.pc = "failed" =>
             /\ init_order_books_task'.pc \in {"failed", "none", "get"}
             /\ init_order_books_task'.pc = "get" => run' = run + 1
             /\ init_order_books_task'.pc = "failed" =>
                   /\ ~order_books_initialized'
                   /\ \A i \in init_order_books_task.index .. Len(trading_pairs) :
                         /\ born'[trading_pairs[i]] # run'
                         /\ trading_pairs[i] \notin tracking_tasks'
                         /\ Task("track_single_book", trading_pairs[i], run') \notin live_tasks'
                   /\ last'.op # "snapshot_router"
                   /\ trade_last' = trade_last
                   /\ prices_last' = prices_last
                   /\ update_last_trade_prices_task' = update_last_trade_prices_task
                   /\ order_book_snapshot_stream' \in
                         {order_book_snapshot_stream} \cup
                         {Append(order_book_snapshot_stream, SnapshotMessage(p, 2)) : p \in Pairs}
                   /\ Len(order_book_trade_stream') >= Len(order_book_trade_stream)]_vars

\* C32 witness: the second start()'s initialization failed at the first pair while a
\* snapshot and a trade wait in their streams and B still has the book of the first run
C32_FailedWithMessagesWaiting ==
    /\ init_order_books_task.pc = "failed"
    /\ init_order_books_task.index = 1
    /\ run = 2
    /\ born["B"] = 1
    /\ order_book_snapshot_stream # <<>>
    /\ order_book_trade_stream # <<>>


(* Properties of the inboxes across runs. *)
\* C33: a diff that the diff router has put into a pair's inbox stays there until a
\* worker of that pair takes it and processes it: no step removes a message from an
\* inbox other than the pair's worker taking the first one, also after a stop()
\* followed by start(), while the new initialization goes on.
C33_InboxDiffsReachTheWorker ==
    [][\A p \in DOMAIN tracking_message_queues :
          tracking_message_queues[p] # <<>> =>
              \/ /\ p \in DOMAIN tracking_message_queues'
                 /\ Len(tracking_message_queues'[p]) >= Len(tracking_message_queues[p])
                 /\ SubSeq(tracking_message_queues'[p], 1, Len(tracking_message_queues[p]))
                        = tracking_message_queues[p]
              \/ /\ last'.op \in {"track_diff", "track_snapshot"}
                 /\ last'.pair = p
                 /\ last'.msg = Head(tracking_message_queues[p])
                 /\ Task("track_single_book", p, run) \in live_tasks
                 /\ tracking_message_queues'[p] = Tail(tracking_message_queues[p])]_vars


(* Properties of the order of the diffs. *)
\* the diffs of pair p that wait in the pair's saved queue or inbox
PendingDiffIds(saved, inboxes, p) ==
    {saved[p][i].update_id : i \in {j \in 1 .. Len(saved[p]) : saved[p][j].type = "DIFF"}}
    \cup (IF p \in DOMAIN inboxes
          THEN {inboxes[p][i].update_id :
                   i \in {j \in 1 .. Len(inboxes[p]) : inboxes[p][j].type = "DIFF"}}
          ELSE {})

\* C34: with diffs numbered in the order the router pops them, the diff the worker
\* of a pair hands to apply_diffs is older than every diff of the pair that still
\* waits in the saved queue or in the inbox, and newer than the diff it handed
\* before to the same book; a diff the router queues is newer than every waiting one.
C34_DiffsHandedInPopOrder ==
    [][/\ (last'.op = "track_diff" /\ last' # last) =>
              /\ \A u \in PendingDiffIds(saved_message_queues', tracking_message_queues',
                                         last'.pair) : u > last'.msg.update_id
              /\ last'.msg.update_id > last'.prev_applied
       /\ (last'.op = "diff_router" /\ last' # last /\ last'.how # "rejected") =>
              \A u \in PendingDiffIds(saved_message_queues, tracking_message_queues,
                                      last'.pair) : u < last'.msg.update_id]_vars

\* C34 witness: the worker of A takes a diff from the saved queue while a later diff
\* of A waits in the inbox
C34_SavedDiffTakenBeforeInboxDiff ==
    /\ last.op = "track_diff"
    /\ last.pair = "A"
    /\ last.how = "saved"
    /\ "A" \in DOMAIN tracking_message_queues
    /\ tracking_message_queues["A"] # <<>>
    /\ run = 1


(* Properties of the diffs the book dropped. *)
\* C35: a diff that the pair's book dropped as stale when the worker processed it is
\* not applied to that book by the replay of a later snapshot: among the diffs of the
\* window that a snapshot replays (those with a larger update id), none was dropped
\* as stale, unless the book took a diff with the same update id when it arrived.
C35_StaleDiffNotReplayed ==
    [][(last'.op = "track_snapshot" /\ last' # last) =>
          LET p == last'.pair
              window == past_diffs_windows[p]
          IN \A i \in 1 .. Len(window) :
                (window_stale[p][i] /\ window[i].update_id > last'.msg.update_id) =>
                    \E j \in 1 .. Len(window) :
                        /\ ~window_stale[p][j]
                        /\ window[j].update_id = window[i].update_id]_vars


(***************************************************************************)
(* PositionExecutor: retries, shutdown, barriers and the trailing stop.    *)
(***************************************************************************)
\* evaluate_max_retries has run in this step: at the end of a RUNNING tick, or
\* after the sleep of a SHUTTING_DOWN tick
EvaluatedMaxRetries ==
    \/ executor'.op = "control_task" /\ executor.status = "RUNNING"
    \/ executor'.op = "control_task_after_sleep"

\* C36: evaluate_max_retries stops the executor with close_type FAILED as soon as
\* the number of retries has reached max_retries, and close_type becomes FAILED
\* only when the number of retries has reached max_retries.
C36_FailedWhenRetriesReachMax ==
    [][EvaluatedMaxRetries =>
          /\ executor'.current_retries >= max_retries =>
                (executor'.close_type = "FAILED" /\ executor'.status = "TERMINATED")
          /\ (executor'.close_type = "FAILED" /\ executor.close_type # "FAILED") =>
                executor'.current_retries >= max_retries]_vars


\* C37: a control_task tick of a SHUTTING_DOWN executor stops it (by
\* control_shutdown_process) only if every tracked order is absent or done and
\* close_type is POSITION_HOLD, or the open filled amount is zero, or the close
\* order is filled; while some tracked order is not done the tick only asks for
\* cancellations: it places no order and changes no field of the executor.
C37_ShutdownStopsOnlyWhenSettled ==
    [][(executor.status = "SHUTTING_DOWN" /\ executor'.op = "control_task") =>
          LET settled == \A slot \in OrderSlots :
                            executor[slot] = "None" \/ is_done(executor[slot])
          IN /\ executor'.status = "TERMINATED" =>
                   /\ settled
                   /\ \/ executor.close_type = "POSITION_HOLD"
                      \/ ~is_filled(executor.open_order)
                      \/ is_filled(executor.close_order)
             /\ ~settled =>
                   /\ \A i \in DOMAIN executor'.requests :
                         executor'.requests[i] \in {"cancel_open", "cancel_take_profit"}
                   /\ executor' = [executor EXCEPT !.op = "control_task",
                                                   !.requests = executor'.requests,
                                                   !.pc = "sleep"]]_vars

\* a SHUTTING_DOWN tick has stopped an executor whose position was opened and
\* closed by filled orders
C37_StoppedWithCloseFilled ==
    /\ executor.op = "control_task"
    /\ executor.pc = "sleep"
    /\ executor.status = "TERMINATED"
    /\ is_filled(executor.open_order)
    /\ is_filled(executor.close_order)
    /\ executor.close_type \in {"STOP_LOSS", "TIME_LIMIT", "EARLY_STOP"}


\* C38: a control_task tick places at most one market close order, also when
\* several barriers are satisfied in the tick.
C38_OneCloseOrderPerTick ==
    executor.op = "control_task" =>
        Cardinality({i \in DOMAIN executor.requests : executor.requests[i] = "close"}) <= 1


\* C39: from a state whose status is SHUTTING_DOWN (or TERMINATED after it) no step
\* makes the status RUNNING, and no handler that starts there places an open order
\* or a take-profit limit order.
C39_ShuttingDownPlacesNoOpening ==
    [][executor.status \in {"SHUTTING_DOWN", "TERMINATED"} =>
          /\ executor'.status # "RUNNING"
          /\ \A i \in DOMAIN executor'.requests :
                executor'.requests[i] \notin {"open", "take_profit"}]_vars

\* a tick of a SHUTTING_DOWN executor that has no open order and no take-profit
\* order has run, where a RUNNING tick could have placed the open order
C39_ShutdownTickWithoutOpenOrder ==
    /\ executor.op = "control_task"
    /\ executor.pc = "sleep"
    /\ executor.status = "TERMINATED"
    /\ executor.close_type = "EARLY_STOP"
    /\ executor.open_order = "None"
    /\ executor.take_profit_limit_order = "None"
    /\ executor.config.take_profit_order_type = "LIMIT"


\* C40: once the trailing-stop trigger is set (zero included), no step lowers or
\* unsets it, whatever net PnL the calls of control_trailing_stop observe.
C40_TrailingTriggerNeverDecreases ==
    [][executor.trailing_stop_trigger_pct # <<>> =>
          /\ executor'.trailing_stop_trigger_pct # <<>>
          /\ executor'.trailing_stop_trigger_pct[1] >= executor.trailing_stop_trigger_pct[1]]_vars

=============================================================================
